---------------------------- MODULE Spec2Model ----------------------------
(***************************************************************************)
(* A model of wireit's execution engine: the Executor, the per-script      *)
(* executions (no-op, one-shot, service), the ServiceExecution state       *)
(* machine and the ScriptChildProcess supervisor.                          *)
(*                                                                         *)
(* JavaScript runs handlers to completion.  A handler that is started by   *)
(* the event loop (a child-process event, the end of file hashing, a       *)
(* signal, a watcher event) is one action of the model; the promise        *)
(* reactions it schedules are kept in the FIFO microtask queue mq and are  *)
(* all run, in order, before the next event-loop handler is taken.         *)
(***************************************************************************)
EXTENDS Naturals, Integers, Sequences, FiniteSets, TLC

(***************************************************************************)
(* Script graphs (the output of analysis).                                 *)
(***************************************************************************)
Scripts == {"main", "a", "b", "svc", "up"}

\* Fixed iteration order used wherever the code iterates a list of scripts.
ScriptOrder == <<"main", "a", "b", "svc", "up">>

GraphIds == {"chain", "fanin", "plusTop", "cross", "svcDep", "viaNoop", "diamond",
             "indirect"}

FailureModes == {"continue", "no-new", "kill"}

\* kind of each script: "noop" (no command), "oneshot", "service",
\* "absent" (not declared in this graph).
KindOf(g) ==
  CASE g = "chain"   -> [s \in Scripts |-> CASE s = "svc" -> "service"
                                             [] s = "up"  -> "service"
                                             [] OTHER     -> "absent"]
    [] g = "fanin"   -> [s \in Scripts |-> CASE s = "main" -> "noop"
                                             [] s = "a"    -> "oneshot"
                                             [] s = "b"    -> "oneshot"
                                             [] s = "svc"  -> "service"
                                             [] OTHER      -> "absent"]
    [] g = "plusTop" -> [s \in Scripts |-> CASE s = "main" -> "noop"
                                             [] s = "a"    -> "oneshot"
                                             [] s = "svc"  -> "service"
                                             [] OTHER      -> "absent"]
    [] g = "cross"   -> [s \in Scripts |-> CASE s = "main" -> "noop"
                                             [] s = "a"    -> "oneshot"
                                             [] s = "b"    -> "oneshot"
                                             [] s = "svc"  -> "service"
                                             [] s = "up"   -> "service"]
    [] g = "svcDep"  -> [s \in Scripts |-> CASE s = "svc" -> "service"
                                             [] s = "a"   -> "oneshot"
                                             [] OTHER     -> "absent"]
    [] g = "viaNoop" -> [s \in Scripts |-> CASE s = "a"    -> "oneshot"
                                             [] s = "main" -> "noop"
                                             [] s = "svc"  -> "service"
                                             [] OTHER      -> "absent"]
    [] g = "diamond" -> [s \in Scripts |-> CASE s = "main" -> "noop"
                                             [] s = "a"    -> "noop"
                                             [] s = "svc"  -> "service"
                                             [] s = "b"    -> "oneshot"
                                             [] OTHER      -> "absent"]
    [] g = "indirect" -> [s \in Scripts |-> CASE s = "main" -> "oneshot"
                                              [] s = "a"    -> "oneshot"
                                              [] s = "b"    -> "oneshot"
                                              [] s = "svc"  -> "service"
                                              [] OTHER      -> "absent"]

\* ordered dependency list of each script
DepsOf(g) ==
  CASE g = "chain"   -> [s \in Scripts |-> IF s = "svc" THEN <<"up">> ELSE <<>>]
    [] g = "fanin"   -> [s \in Scripts |-> CASE s = "main" -> <<"a", "b">>
                                             [] s = "a"    -> <<"svc">>
                                             [] s = "b"    -> <<"svc">>
                                             [] OTHER      -> <<>>]
    [] g = "plusTop" -> [s \in Scripts |-> CASE s = "main" -> <<"svc", "a">>
                                             [] s = "a"    -> <<"svc">>
                                             [] OTHER      -> <<>>]
    [] g = "cross"   -> [s \in Scripts |-> CASE s = "main" -> <<"a", "b">>
                                             [] s = "a"    -> <<"up">>
                                             [] s = "b"    -> <<"svc">>
                                             [] s = "svc"  -> <<"up">>
                                             [] OTHER      -> <<>>]
    [] g = "svcDep"  -> [s \in Scripts |-> IF s = "svc" THEN <<"a">> ELSE <<>>]
    [] g = "viaNoop" -> [s \in Scripts |-> CASE s = "a"    -> <<"main">>
                                             [] s = "main" -> <<"svc">>
                                             [] OTHER      -> <<>>]
    [] g = "diamond" -> [s \in Scripts |-> CASE s = "main" -> <<"a", "svc">>
                                             [] s = "a"    -> <<"b">>
                                             [] s = "svc"  -> <<"b">>
                                             [] OTHER      -> <<>>]
    [] g = "indirect" -> [s \in Scripts |-> CASE s = "main" -> <<"a">>
                                              [] s = "a"    -> <<"svc", "b">>
                                              [] s = "b"    -> <<"svc">>
                                              [] OTHER      -> <<>>]

RootOf(g) ==
  CASE g = "chain"   -> "svc"
    [] g = "fanin"   -> "main"
    [] g = "plusTop" -> "main"
    [] g = "cross"   -> "main"
    [] g = "svcDep"  -> "svc"
    [] g = "viaNoop" -> "a"
    [] g = "diamond" -> "main"
    [] g = "indirect" -> "main"

Range(q) == {q[i] : i \in 1..Len(q)}

RECURSIVE SeqFilter(_, _)
\* the elements of sequence q that are in set S, in q's order
SeqFilter(q, S) ==
  IF q = <<>> THEN <<>>
  ELSE IF Head(q) \in S THEN <<Head(q)>> \o SeqFilter(Tail(q), S)
       ELSE SeqFilter(Tail(q), S)


(***************************************************************************)
(* Graph walks.                                                            *)
(***************************************************************************)
\* ScriptConfig.reverseDependencies, in ScriptOrder
ReverseDependencies(g, s) ==
  SeqFilter(ScriptOrder, {p \in Scripts : s \in Range(DepsOf(g)[p])})

AppendNew(q, x) == IF x \in Range(q) THEN q ELSE Append(q, x)

RECURSIVE findTopLevelServicesThroughCommands(_, _, _)
\* findTopLevelServices descending through every script that is no service
findTopLevelServicesThroughCommands(g, todo, acc) ==
  IF todo = <<>> THEN acc
  ELSE LET s == Head(todo) IN
       IF KindOf(g)[s] = "service"
         THEN findTopLevelServicesThroughCommands(g, Tail(todo), AppendNew(acc, s))
         ELSE findTopLevelServicesThroughCommands(g, DepsOf(g)[s] \o Tail(todo), acc)

RECURSIVE findTopLevelServicesAcc(_, _, _)
\* Executor.findTopLevelServices: todo is the list of scripts still to be
\* visited (depth first), acc the insertion-ordered Set of services.
findTopLevelServicesAcc(g, todo, acc) ==
  IF todo = <<>> THEN acc
  ELSE LET s == Head(todo) IN
       IF KindOf(g)[s] = "noop"
         THEN findTopLevelServicesAcc(g, DepsOf(g)[s] \o Tail(todo), acc)
         ELSE IF KindOf(g)[s] = "service"
                THEN findTopLevelServicesAcc(g, Tail(todo), AppendNew(acc, s))
                ELSE findTopLevelServicesAcc(g, Tail(todo), acc)

findTopLevelServices(g, s) == findTopLevelServicesAcc(g, <<s>>, <<>>)

RECURSIVE findConsumersThroughCommands(_, _, _)
\* the stack walk going on through every reverse dependency, command or not
findConsumersThroughCommands(g, stack, acc) ==
  IF stack = <<>> THEN acc
  ELSE LET current == stack[Len(stack)]
           rest    == SubSeq(stack, 1, Len(stack) - 1)
           rds     == ReverseDependencies(g, current)
           cmds    == {p \in Range(rds) : KindOf(g)[p] # "noop"}
       IN findConsumersThroughCommands(g, rest \o rds, acc \cup cmds)

RECURSIVE findConsumersAcc(_, _, _)
\* the stack walk of ServiceExecution.#findConsumersOfThisService
findConsumersAcc(g, stack, acc) ==
  IF stack = <<>> THEN acc
  ELSE LET current == stack[Len(stack)]
           rest    == SubSeq(stack, 1, Len(stack) - 1)
           rds     == ReverseDependencies(g, current)
           noops   == SeqFilter(rds, {p \in Scripts : KindOf(g)[p] = "noop"})
           cmds    == {p \in Range(rds) : KindOf(g)[p] # "noop"}
       IN findConsumersAcc(g, rest \o noops, acc \cup cmds)

\* ServiceExecution.#findConsumersOfThisService, as a list in ScriptOrder
findConsumersOfThisService(g, s) ==
  IF ReverseDependencies(g, s) = <<>> THEN <<>>
  ELSE SeqFilter(ScriptOrder, findConsumersAcc(g, <<s>>, {}))

RECURSIVE ResultServices(_, _)
RECURSIVE ForwardedServices(_, _)
\* the services of the successful results of the scripts in list ds, in order
ForwardedServices(g, ds) ==
  IF ds = <<>> THEN <<>>
  ELSE ResultServices(g, Head(ds)) \o ForwardedServices(g, Tail(ds))

\* value.services of a successful ExecutionResult of s: a service returns
\* [this], a no-op forwards the services of its dependencies, a one-shot
\* returns none.
ResultServices(g, s) ==
  CASE KindOf(g)[s] = "service" -> <<s>>
    [] KindOf(g)[s] = "noop"    -> ForwardedServices(g, DepsOf(g)[s])
    [] OTHER                    -> <<>>

\* the services a script collects from its dependencies' results
\* (#state.services of a service; the services a one-shot has to start)
UpstreamServices(g, s) == ForwardedServices(g, DepsOf(g)[s])

\* scripts p that collect service s from their dependencies' results
Downstream(g, s) ==
  SeqFilter(ScriptOrder, {p \in Scripts : KindOf(g)[p] \in {"service", "oneshot"}
                                           /\ s \in Range(UpstreamServices(g, p))})

\* scripts that list d as a dependency
Dependents(g, d) == ReverseDependencies(g, d)

(***************************************************************************)
(* State.                                                                  *)
(***************************************************************************)
VARIABLES
  graph,            \* input: the analysed script graph
  failureMode,      \* input: Executor's failureMode
  persisted,        \* input: scripts whose persisted fingerprint equals the
                    \*        current one (and whose cache entry exists)
  topPc,            \* position of Executor.executeTopLevel
  topResult,        \* what executeTopLevel returned
  created,          \* number of execution objects made per script
  res,              \* Executor.#executionResults: state of each result promise
  seen,             \* results delivered to the callers of execute(s)
  pc,               \* position of each execution's async execute()/fingerprint()
  svcState,         \* ServiceExecution.#state.state
  numConsumers,     \* ServiceExecution.#numConsumers
  handles,          \* consumer handles added and not yet released
  done,             \* each execution's done deferred
  termSubs,         \* services subscribed to service.done (upstream watch)
  startWaiters,     \* pending promises returned by start()
  startResults,     \* what each start() promise resolved with, "none" before
  startCalled,      \* services on which start() has been called
  child,            \* ScriptChildProcess.#state, "none" before construction
  spawned,          \* ScriptChildProcess.#spawned
  completed,        \* ScriptChildProcess.#completed
  spawnCount,       \* number of child processes created per script
  signals,          \* number of termination signals sent per script
  terminateCalls,   \* number of terminate() calls made on each script's child
  watch,            \* the Watcher's fields and the position of its loop
  proc,             \* the operating system's view of each child
  abort,            \* the abort deferred is settled
  failureOccured,   \* Executor.#failureOccured settled
  stopStartingNewScripts,
  killRunningScripts,
  killTopLevelServices,
  policyApplied,    \* the failureOccured reaction has run
  mq,               \* microtask queue (promise reaction jobs), FIFO
  unexpected,       \* (script, handler) pairs that threw unexpectedState
  errs,             \* the Failure list of each failed execute() result
  dead,             \* the process died of an unhandled rejection
  fileChanges,      \* watcher events delivered so far
  fp,               \* a call of Fingerprint.compute: its inputs and results
  an                \* an analysis of a script graph and its diagnostic

vars == <<graph, failureMode, persisted, topPc, topResult, created, res, seen,
          pc, svcState, numConsumers, handles, done, termSubs, startWaiters,
          startResults, startCalled, child, spawned, completed, spawnCount,
          signals, proc, abort, failureOccured, stopStartingNewScripts,
          killRunningScripts, killTopLevelServices, policyApplied, mq,
          unexpected, errs, terminateCalls, watch, dead, fileChanges, fp, an>>

\* The mutable program state as one record, so that a handler and the
\* handlers it calls synchronously compose as functions World -> World.
\* thrown is the exception in flight (not state: it is consumed by the
\* enclosing action).
World ==
  [created |-> created, res |-> res, seen |-> seen, pc |-> pc,
   svcState |-> svcState, numConsumers |-> numConsumers, handles |-> handles,
   done |-> done, termSubs |-> termSubs, startWaiters |-> startWaiters,
   startResults |-> startResults, startCalled |-> startCalled,
   child |-> child, spawned |-> spawned, completed |-> completed,
   spawnCount |-> spawnCount, signals |-> signals, proc |-> proc,
   abort |-> abort, failureOccured |-> failureOccured,
   stopStartingNewScripts |-> stopStartingNewScripts,
   killRunningScripts |-> killRunningScripts,
   killTopLevelServices |-> killTopLevelServices,
   policyApplied |-> policyApplied,
   topPc |-> topPc, topResult |-> topResult,
   mq |-> mq, unexpected |-> unexpected, errs |-> errs,
   terminateCalls |-> terminateCalls, watch |-> watch, thrown |-> FALSE]

Commit(w) ==
  /\ created' = w.created /\ res' = w.res /\ seen' = w.seen /\ pc' = w.pc
  /\ svcState' = w.svcState /\ numConsumers' = w.numConsumers
  /\ handles' = w.handles /\ done' = w.done /\ termSubs' = w.termSubs
  /\ startWaiters' = w.startWaiters /\ startResults' = w.startResults
  /\ startCalled' = w.startCalled
  /\ child' = w.child /\ spawned' = w.spawned /\ completed' = w.completed
  /\ spawnCount' = w.spawnCount /\ signals' = w.signals /\ proc' = w.proc
  /\ abort' = w.abort /\ failureOccured' = w.failureOccured
  /\ stopStartingNewScripts' = w.stopStartingNewScripts
  /\ killRunningScripts' = w.killRunningScripts
  /\ killTopLevelServices' = w.killTopLevelServices
  /\ policyApplied' = w.policyApplied
  /\ topPc' = w.topPc /\ topResult' = w.topResult
  /\ mq' = w.mq /\ unexpected' = w.unexpected /\ errs' = w.errs
  /\ terminateCalls' = w.terminateCalls /\ watch' = w.watch
  /\ UNCHANGED <<graph, failureMode, persisted, fp, an>>

(***************************************************************************)
(* Promise reactions.  A task [k, s, a, n] is the reaction k for script s  *)
(* (a: the other party); n is the number of promise hops that still pass   *)
(* the value on before the callback itself runs.                           *)
(***************************************************************************)
\* releaseConsumer.catch(..).then(..): the callback runs two reaction jobs
\* after the handle's promise settles
ReleaseTicks == 2
\* p.catch(..).then(..) in Executor.execute
ExecuteThenTicks == 2
\* a caller of the async execute() sees the stored promise's result through
\* execute()'s own promise: one job to settle it, one for the caller
ExecuteCallerTicks == 2
\* child.promise.then((child) => child.spawned): the returned promise adopts
\* spawned, so its reactions run one job after those of spawned itself
StartChainTicks == 2
\* a plain .then() or an await on a promise
ThenTicks == 1

Enq(w, k, s, a, ticks) ==
  [w EXCEPT !.mq = Append(@, [k |-> k, s |-> s, a |-> a, n |-> ticks - 1])]

RECURSIVE EnqEach(_, _, _, _, _)
\* enqueue reaction k once for every script of the list ss, in order
EnqEach(w, k, ss, a, ticks) ==
  IF ss = <<>> THEN w
  ELSE EnqEach(Enq(w, k, Head(ss), a, ticks), k, Tail(ss), a, ticks)

\* unexpectedState / unknownState: the handler h of script s throws
Throw(w, s, h) ==
  [w EXCEPT !.thrown = TRUE, !.unexpected = @ \cup {<<s, h>>}]

(***************************************************************************)
(* Executor flags.                                                         *)
(***************************************************************************)
\* one-shots whose child is running listen to shouldKillRunningScripts
RunningOneShots(w) ==
  SeqFilter(ScriptOrder, {s \in Scripts : KindOf(graph)[s] = "oneshot"
                                          /\ w.pc[s] = "running"})

\* #stopStartingNewScripts.resolve()
ResolveStopStarting(w) == [w EXCEPT !.stopStartingNewScripts = TRUE]

\* #killRunningScripts.resolve()
ResolveKillRunning(w) ==
  IF w.killRunningScripts THEN w
  ELSE EnqEach([w EXCEPT !.killRunningScripts = TRUE],
               "killChild", RunningOneShots(w), "", ThenTicks)

\* #killTopLevelServices.resolve(): the promise given to addConsumer by
\* executeTopLevel settles, so every entrypoint handle starts its release
ResolveKillTopLevel(w) ==
  IF w.killTopLevelServices THEN w
  ELSE EnqEach([w EXCEPT !.killTopLevelServices = TRUE], "release",
               SeqFilter(ScriptOrder, {s \in Scripts : "entry" \in w.handles[s]}),
               "entry", ReleaseTicks)

\* fault injection: an abort reaction that leaves the top-level services
\* alone
OnAbortKeepsTopLevel(w) == ResolveKillRunning(ResolveStopStarting(w))

\* the reaction registered on abort.promise by the constructor
OnAbort(w) ==
  ResolveKillTopLevel(ResolveKillRunning(ResolveStopStarting(w)))

\* fault injection: a failureOccured reaction that kills in every mode but
\* `continue`
OnFailureOccuredKills(w) ==
  LET w1 == [w EXCEPT !.policyApplied = TRUE] IN
  IF failureMode = "continue" THEN w1
  ELSE ResolveKillRunning(ResolveStopStarting(w1))

\* fault injection: a failureOccured reaction whose `kill` mode kills the
\* running scripts and goes on starting new ones
OnFailureOccuredKillOnly(w) ==
  LET w1 == [w EXCEPT !.policyApplied = TRUE] IN
  CASE failureMode = "continue" -> w1
    [] failureMode = "no-new"   -> ResolveStopStarting(w1)
    [] failureMode = "kill"     -> ResolveKillRunning(w1)

\* the reaction registered on #failureOccured.promise by the constructor
OnFailureOccured(w) ==
  LET w1 == [w EXCEPT !.policyApplied = TRUE] IN
  CASE failureMode = "continue" -> w1
    [] failureMode = "no-new"   -> ResolveStopStarting(w1)
    [] failureMode = "kill"     -> ResolveKillRunning(ResolveStopStarting(w1))

\* fault injection: a notifyFailure whose every call triggers the reaction
NotifyFailureEveryCall(w) ==
  Enq([w EXCEPT !.failureOccured = TRUE], "failureOccured", "main", "", ThenTicks)

\* Executor.notifyFailure
notifyFailure(w) ==
  IF w.failureOccured THEN w
  ELSE Enq([w EXCEPT !.failureOccured = TRUE], "failureOccured", "main", "", ThenTicks)

\* Executor.killTopLevelServices
killTopLevelServicesCall(w) == ResolveKillTopLevel(w)

\* fault injection: a lookup in #executions that never finds the execution
GetExecutionNeverFound(w, s) == TRUE

GetExecutionMissing(w, s) == w.created[s] = 0

\* Executor.getExecution: make the execution of s unless #executions has it
getExecution(w, s) ==
  IF GetExecutionMissing(w, s) THEN [w EXCEPT !.created[s] = @ + 1] ELSE w

(***************************************************************************)
(* ScriptChildProcess.                                                     *)
(***************************************************************************)
\* new ScriptChildProcess(script): spawn() is issued, #state = 'starting'
NewChild(w, s) ==
  [w EXCEPT !.child[s] = "starting", !.spawned[s] = "pending",
            !.completed[s] = "pending", !.spawnCount[s] = @ + 1,
            !.proc[s] = "spawning"]

\* ScriptChildProcess.#actuallyTerminate
ActuallyTerminate(w, s) ==
  [w EXCEPT !.signals[s] = @ + 1, !.child[s] = "stopping"]

\* fault injection: a terminate() that signals a child that is still
\* starting
TerminateAtOnce(w, s) ==
  LET w1 == [w EXCEPT !.terminateCalls[s] = @ + 1] IN
  CASE w.child[s] \in {"started", "starting"} -> ActuallyTerminate(w1, s)
    [] OTHER                                  -> w1

\* fault injection: a terminate() that signals a child again after it has
\* stopped
TerminateAfterStop(w, s) ==
  LET w1 == [w EXCEPT !.terminateCalls[s] = @ + 1] IN
  CASE w.child[s] \in {"started", "stopped"} -> ActuallyTerminate(w1, s)
    [] w.child[s] = "starting"               -> [w1 EXCEPT !.child[s] = "stopping"]
    [] OTHER                                 -> w1

\* ScriptChildProcess.terminate
Terminate(w, s) ==
  LET w1 == [w EXCEPT !.terminateCalls[s] = @ + 1] IN
  CASE w.child[s] = "started"  -> ActuallyTerminate(w1, s)
    [] w.child[s] = "starting" -> [w1 EXCEPT !.child[s] = "stopping"]
    [] OTHER                   -> w1

\* fault injection: a 'close' handler that looks at the exit status before
\* the signal (the status of a child killed by a signal is null)
CloseResultStatusFirst(state, how) ==
  IF state = "stopping" THEN "terminated"
  ELSE IF how # "zero" THEN "exit-non-zero"
  ELSE "ok"

\* the categorised result the 'close' handler resolves completed with
CloseResult(state, how) ==
  IF state = "stopping" THEN "terminated"
  ELSE IF how = "signal" THEN "signal"
  ELSE IF how = "nonzero" THEN "exit-non-zero"
  ELSE "ok"

(***************************************************************************)
(* ServiceExecution.                                                       *)
(***************************************************************************)
TopLevelServices == findTopLevelServices(graph, RootOf(graph))

\* every service of the list has settled done
AllDone(w, ss) == \A s \in Range(ss) : w.done[s] # "pending"

\* #done.resolve(r) of the execution of s, and the reactions registered on
\* done: executeTopLevel's notifier, the services that watch s as their
\* upstream, the consumer handles that s holds on services, and
\* executeTopLevel's Promise.all(servicesDone)
ResolveDone(w, s, r) ==
  IF w.done[s] # "pending" THEN w
  ELSE LET w1 == [w EXCEPT !.done[s] = r]
           w2 == IF s \in Range(TopLevelServices) /\ w.topPc # "init"
                   THEN Enq(w1, "topDone", s, "", ThenTicks) ELSE w1
           w3 == EnqEach(w2, "serviceTerminated",
                         SeqFilter(ScriptOrder, w.termSubs[s]), s, ThenTicks)
           w4 == EnqEach(w3, "release",
                         SeqFilter(ScriptOrder, {u \in Scripts : s \in w.handles[u]}),
                         s, ReleaseTicks)
       IN IF w.topPc = "awaitServices" /\ s \in Range(TopLevelServices)
             /\ AllDone(w4, TopLevelServices)
            THEN Enq(w4, "topServicesDone", "main", "", ExecuteCallerTicks)
            ELSE w4

\* child.kill() of the service: the supervisor's terminate()
KillChild(w, s) == Terminate(w, s)

\* ServiceExecution.#onAllConsumersReleased
onAllConsumersReleased(w, s) ==
  CASE w.svcState[s] = "started" ->
         [KillChild(w, s) EXCEPT !.svcState[s] = "stopping"]
    [] w.svcState[s] \in {"failed", "failing"} -> w
    [] OTHER -> Throw(w, s, "onAllConsumersReleased")

\* ServiceExecution.addConsumer(releaseConsumer); src names the promise.
\* A promise that is already settled schedules its reaction at once.
addConsumer(w, s, src) ==
  LET settled == IF src = "entry" THEN w.killTopLevelServices
                 ELSE w.done[src] # "pending"
      w1 == [w EXCEPT !.numConsumers[s] = @ + 1, !.handles[s] = @ \cup {src}]
  IN IF settled THEN Enq(w1, "release", s, src, ReleaseTicks) ELSE w1

\* fault injection: a release callback that takes any release for the last
ReleaseConsumerAnyIsLast(w, s, src) ==
  LET w1 == [w EXCEPT !.numConsumers[s] = @ - 1, !.handles[s] = @ \ {src}]
  IN onAllConsumersReleased(w1, s)

\* the callback addConsumer registers on releaseConsumer
ReleaseConsumer(w, s, src) ==
  LET w1 == [w EXCEPT !.numConsumers[s] = @ - 1, !.handles[s] = @ \ {src}]
  IN IF w1.numConsumers[s] <= 0 THEN onAllConsumersReleased(w1, s) ELSE w1

\* fault injection: a start() promise that resolves without waiting for the
\* child's spawn result
AddWaiterEager(w, s, who, direct) ==
  Enq([w EXCEPT !.startWaiters = @ \cup {<<s, who, direct>>}],
      "startResolved", s, who, ThenTicks)

\* the promise returned by start() to caller who; direct: it is
\* child.spawned itself (state 'started'), else the chain through the child
\* deferred
AddWaiter(w, s, who, direct) ==
  LET w1 == [w EXCEPT !.startWaiters = @ \cup {<<s, who, direct>>}]
  IN IF direct /\ w.spawned[s] # "pending"
       THEN Enq(w1, "startResolved", s, who, ThenTicks)
       ELSE w1

RECURSIVE start(_, _, _)
RECURSIVE StartUpstream(_, _, _)
\* the loop of start() over #state.services: start each and watch its done
StartUpstream(w, us, s) ==
  IF us = <<>> THEN w
  ELSE LET w1 == start(w, Head(us), s) IN
       IF w1.thrown THEN w1
       ELSE StartUpstream([w1 EXCEPT !.termSubs[Head(us)] = @ \cup {s}],
                          Tail(us), s)

StartableStates == {"awaiting-first-consumer", "starting", "started"}

\* ServiceExecution.start, called by who
start(w, s, who) ==
  LET w0 == [w EXCEPT !.startCalled = @ \cup {s}]
      st == w.svcState[s]
  IN IF st \notin StartableStates THEN Throw(w0, s, "start")
     ELSE IF st = "awaiting-first-consumer"
       THEN LET us == UpstreamServices(graph, s)
                w1 == StartUpstream(w0, us, s)
            IN IF w1.thrown THEN w1
               ELSE LET w2 == [w1 EXCEPT !.svcState[s] = "starting"]
                        w3 == IF us = <<>>
                                THEN Enq(w2, "allServicesStarted", s, "", ThenTicks)
                                ELSE w2
                    IN AddWaiter(w3, s, who, FALSE)
       ELSE AddWaiter(w0, s, who, st = "started")

RECURSIVE AddConsumers(_, _, _)
\* the loop of #onAllServicesStarted over the consumers
AddConsumers(w, s, cs) ==
  IF cs = <<>> THEN w
  ELSE AddConsumers(addConsumer(getExecution(w, Head(cs)), s, Head(cs)), s, Tail(cs))

\* fault injection: #onAllServicesStarted that also spawns in a service
\* that has already failed
SpawnableStatesWithFailed == {"starting", "failed"}

SpawnableStates == {"starting"}

\* ServiceExecution.#onAllServicesStarted
onAllServicesStarted(w, s) ==
  IF w.svcState[s] \in SpawnableStates
    THEN LET w1 == NewChild(w, s)
             w2 == AddConsumers(w1, s, findConsumersOfThisService(graph, s))
         IN [w2 EXCEPT !.svcState[s] = "started"]
    ELSE IF w.svcState[s] \in {"stopped", "failed"} THEN w
    ELSE Throw(w, s, "onAllServicesStarted")

\* fault injection: a service that leaves its child running when a service
\* it depends on terminates
OnServiceTerminatedLeavesChild(w, s) ==
  CASE w.svcState[s] = "starting" ->
         ResolveDone([w EXCEPT !.svcState[s] = "failed"], s, "fail")
    [] w.svcState[s] = "started" -> [w EXCEPT !.svcState[s] = "failing"]
    [] w.svcState[s] \in {"failing", "failed", "stopping", "stopped"} -> w
    [] OTHER -> Throw(w, s, "onServiceTerminated")

\* fault injection: a service that is still starting ignores the
\* termination of a service it depends on
OnServiceTerminatedIgnoredWhileStarting(w, s) ==
  CASE w.svcState[s] = "started" ->
         [KillChild(w, s) EXCEPT !.svcState[s] = "failing"]
    [] w.svcState[s] \in {"starting", "failing", "failed", "stopping", "stopped"} -> w
    [] OTHER -> Throw(w, s, "onServiceTerminated")

\* fault injection: a starting service that fails on the termination of a
\* service it depends on without resolving its `done`
OnServiceTerminatedKeepsDone(w, s) ==
  CASE w.svcState[s] = "starting" -> [w EXCEPT !.svcState[s] = "failed"]
    [] w.svcState[s] = "started" ->
         [KillChild(w, s) EXCEPT !.svcState[s] = "failing"]
    [] w.svcState[s] \in {"failing", "failed", "stopping", "stopped"} -> w
    [] OTHER -> Throw(w, s, "onServiceTerminated")

\* ServiceExecution.#onServiceTerminated
onServiceTerminated(w, s) ==
  CASE w.svcState[s] = "starting" ->
         ResolveDone([w EXCEPT !.svcState[s] = "failed"], s, "fail")
    [] w.svcState[s] = "started" ->
         [KillChild(w, s) EXCEPT !.svcState[s] = "failing"]
    [] w.svcState[s] \in {"failing", "failed", "stopping", "stopped"} -> w
    [] OTHER -> Throw(w, s, "onServiceTerminated")

\* the reason the service compares the child's result with
KilledReason == "killed"

\* fault injection: a service that takes a clean exit of its child for a
\* regular stop
OnChildTerminatedAcceptsExit(w, s, result) ==
  IF w.svcState[s] \in {"started", "stopping", "failing"}
    THEN IF result \in {KilledReason, "ok"}
           THEN ResolveDone([w EXCEPT !.svcState[s] = "stopped"], s, "ok")
           ELSE ResolveDone([w EXCEPT !.svcState[s] = "failed"], s, "fail")
    ELSE Throw(w, s, "onChildTerminated")

\* ServiceExecution.#onChildTerminated(result)
onChildTerminated(w, s, result) ==
  IF w.svcState[s] \in {"started", "stopping", "failing"}
    THEN IF w.svcState[s] = "stopping" /\ result = KilledReason
           THEN ResolveDone([w EXCEPT !.svcState[s] = "stopped"], s, "ok")
           ELSE ResolveDone([w EXCEPT !.svcState[s] = "failed"], s, "fail")
    ELSE Throw(w, s, "onChildTerminated")

(***************************************************************************)
(* Executor.execute and the executions' async bodies.                      *)
(***************************************************************************)
\* executeDependencies awaits Promise.all over the callers' promises: the
\* caller's promise, the Promise.all element, then the await continuation
DepsDoneTicks == 3

\* the body of an execution has produced result r: Executor.execute's
\* .catch().then() runs next
Returned(w, s, r) ==
  LET w1 == IF r = "fail" /\ w.errs[s] = <<>>
              THEN [w EXCEPT !.errs[s] = <<s>>] ELSE w
  IN Enq([w1 EXCEPT !.pc[s] = "done"], "executeThen", s, r, ExecuteThenTicks)

RECURSIVE execute(_, _)
RECURSIVE ExecuteEach(_, _)
\* executeDependencies' map over the dependencies (the code shuffles the
\* list first; the walk is taken in declaration order)
ExecuteEach(w, ds) ==
  IF ds = <<>> THEN w ELSE ExecuteEach(execute(w, Head(ds)), Tail(ds))

\* Executor.execute(s), up to the first await of the execution's body: the
\* execution is looked up or made, a service leaves 'initial', and
\* executeDependencies calls execute on every dependency
execute(w, s) ==
  IF w.res[s] # "none" THEN w
  ELSE LET w1 == getExecution(w, s)
           w2 == IF KindOf(graph)[s] = "service"
                   THEN IF w1.svcState[s] = "initial"
                          THEN [w1 EXCEPT !.svcState[s] = "fingerprinting"]
                          ELSE Throw(w1, s, "execute")
                   ELSE w1
           w3 == ExecuteEach(w2, DepsOf(graph)[s])
       IN [w3 EXCEPT !.res[s] = "pending",
                     !.pc[s] = IF DepsOf(graph)[s] = <<>> THEN "fp" ELSE "deps"]

\* a one-shot's child is spawned
SpawnOneShot(w, s) ==
  LET w1 == [NewChild(w, s) EXCEPT !.pc[s] = "running"]
  IN IF w.killRunningScripts THEN Enq(w1, "killChild", s, "", ThenTicks) ELSE w1

\* a one-shot ends with result r: done settles and the body returns
OneShotReturns(w, s, r) == Returned(ResolveDone(w, s, r), s, r)

RECURSIVE StartEach(_, _, _)
\* a one-shot calls start() on each service it needs
StartEach(w, us, s) ==
  IF us = <<>> THEN w
  ELSE LET w1 == start(w, Head(us), s) IN
       IF w1.thrown THEN w1 ELSE StartEach(w1, Tail(us), s)

\* a one-shot is fresh: its persisted fingerprint equals the current one
IsFresh(s) == s \in persisted

\* fault injection: a service that spawns its child as soon as it has its
\* fingerprint
ServiceFingerprintedSpawns(w, s) ==
  Returned([NewChild(w, s) EXCEPT !.svcState[s] = "started"], s, "ok")

\* fault injection: a service that is skipped, like a fresh one-shot, when
\* its persisted fingerprint is the current one
ServiceSkippedWhenFresh(w, s) ==
  IF s \in persisted THEN Returned(w, s, "ok")
  ELSE Returned([w EXCEPT !.svcState[s] = "awaiting-first-consumer"], s, "ok")

\* ServiceExecution.execute after Fingerprint.compute
ServiceFingerprinted(w, s) ==
  IF w.svcState[s] # "fingerprinting"
    THEN Returned([Throw(w, s, "execute") EXCEPT !.thrown = FALSE], s, "fail")
    ELSE Returned([w EXCEPT !.svcState[s] = "awaiting-first-consumer"], s, "ok")

\* the body of an execution after Fingerprint.compute
AfterFingerprint(w, s) ==
  CASE KindOf(graph)[s] = "noop" ->
         Returned(ResolveDone(w, s, "ok"), s, "ok")
    [] KindOf(graph)[s] = "service" -> ServiceFingerprinted(w, s)
    [] KindOf(graph)[s] = "oneshot" ->
         IF IsFresh(s) THEN OneShotReturns(w, s, "ok")
         ELSE IF w.stopStartingNewScripts THEN OneShotReturns(w, s, "fail")
         ELSE LET us == UpstreamServices(graph, s)
                  w1 == StartEach(w, us, s)
              IN IF w1.thrown
                   THEN OneShotReturns([w1 EXCEPT !.thrown = FALSE], s, "fail")
                   ELSE IF us = <<>> THEN SpawnOneShot(w1, s)
                   ELSE [w1 EXCEPT !.pc[s] = "startingServices"]

\* every dependency's result promise has settled
DepsSettled(w, p) == \A d \in Range(DepsOf(graph)[p]) : w.res[d] \in {"ok", "fail"}

\* fault injection: the errors collected in an array, not in a Set
AppendAll(acc, es) == acc \o es

RECURSIVE AddAll(_, _)
\* errors.add(error) for each error of one failed result: a Set keeps one
\* entry per Failure object
AddAll(acc, es) ==
  IF es = <<>> THEN acc ELSE AddAll(AppendNew(acc, Head(es)), Tail(es))

RECURSIVE DependencyErrors(_, _, _)
\* the loop of executeDependencies over dependencyResults: the errors of
\* every failed dependency, in the order of the dependency list
DependencyErrors(w, ds, acc) ==
  IF ds = <<>> THEN acc
  ELSE DependencyErrors(w, Tail(ds),
         IF w.res[Head(ds)] = "fail" THEN AddAll(acc, w.errs[Head(ds)]) ELSE acc)

\* executeDependencies has all results
OnDepsDone(w, p) ==
  LET ds == Range(DepsOf(graph)[p])
      w0 == [w EXCEPT !.errs[p] = DependencyErrors(w, DepsOf(graph)[p], <<>>)]
      w1 == [w0 EXCEPT !.seen = [d \in Scripts |->
                         IF d \in ds THEN @[d] \cup {w.res[d]} ELSE @[d]]]
  IN IF \E d \in ds : w.res[d] = "fail"
       THEN IF KindOf(graph)[p] = "oneshot" THEN OneShotReturns(w1, p, "fail")
            ELSE Returned(w1, p, "fail")
       ELSE [w1 EXCEPT !.pc[p] = "fp"]

\* fault injection: an execute() that settles its result without
\* notifying the executor of a failure
OnExecuteThenSilent(w, s, r) ==
  LET w2 == [w EXCEPT !.res[s] = r]
      w3 == EnqEach(w2, "depsDone",
                    SeqFilter(Dependents(graph, s),
                              {p \in Scripts : w2.pc[p] = "deps" /\ DepsSettled(w2, p)}),
                    "", DepsDoneTicks)
  IN IF s = RootOf(graph)
       THEN Enq(EnqEach(w3, "topStart", TopLevelServices, "", ExecuteCallerTicks),
                "topAwaitRoot", s, "", ExecuteCallerTicks)
       ELSE w3

\* the .then() of Executor.execute: notify a failure, settle the stored
\* promise, and schedule its callers
OnExecuteThen(w, s, r) ==
  LET w1 == IF r = "fail" THEN notifyFailure(w) ELSE w
      w2 == [w1 EXCEPT !.res[s] = r]
      w3 == EnqEach(w2, "depsDone",
                    SeqFilter(Dependents(graph, s),
                              {p \in Scripts : w2.pc[p] = "deps" /\ DepsSettled(w2, p)}),
                    "", DepsDoneTicks)
  IN IF s = RootOf(graph)
       THEN Enq(EnqEach(w3, "topStart", TopLevelServices, "", ExecuteCallerTicks),
                "topAwaitRoot", s, "", ExecuteCallerTicks)
       ELSE w3

\* all start() promises a caller waits for are resolved
StartsResolved(w, who) ==
  \A u \in Range(UpstreamServices(graph, who)) : w.startResults[<<u, who>>] # "none"

\* the promise start() returned to who resolves with the child's spawn result
OnStartResolved(w, s, who) ==
  LET w1 == [w EXCEPT !.startWaiters = {x \in @ : ~(x[1] = s /\ x[2] = who)},
                      !.startResults[<<s, who>>] = w.spawned[s]]
  IN IF who = "entry" THEN w1
     ELSE IF StartsResolved(w1, who)
       THEN Enq(w1, IF KindOf(graph)[who] = "service" THEN "allServicesStarted"
                    ELSE "servicesReady", who, "", ThenTicks)
       ELSE w1

\* a one-shot's services are all started: it runs its command, unless one
\* of them failed to spawn
OnServicesReady(w, s) ==
  IF \E u \in Range(UpstreamServices(graph, s)) : w.startResults[<<u, s>>] # "ok"
    THEN OneShotReturns(w, s, "fail")
    ELSE SpawnOneShot(w, s)

\* a one-shot's child has completed
OnOneShotCompleted(w, s) ==
  OneShotReturns(w, s, IF w.completed[s] = "ok" THEN "ok" ELSE "fail")

(***************************************************************************)
(* Child process events (handlers registered by the ScriptChildProcess     *)
(* constructor) and the reactions on spawned and completed.                *)
(***************************************************************************)
Callers == Scripts \cup {"entry"}
CallerOrder == ScriptOrder \o <<"entry">>

RECURSIVE EnqWaiters(_, _, _, _, _)
\* schedule the start() promises of service s held by the callers in list cs
\* whose kind (direct or chained) is as given
EnqWaiters(w, s, cs, direct, ticks) ==
  IF cs = <<>> THEN w
  ELSE EnqWaiters(IF <<s, Head(cs), direct>> \in w.startWaiters
                    THEN Enq(w, "startResolved", s, Head(cs), ticks) ELSE w,
                  s, Tail(cs), direct, ticks)

\* #spawned.resolve(..): reactions of the promises start() handed out
SpawnedSettles(w, s, r) ==
  IF w.spawned[s] # "pending" THEN w
  ELSE EnqWaiters(EnqWaiters([w EXCEPT !.spawned[s] = r], s, CallerOrder, TRUE, ThenTicks),
                  s, CallerOrder, FALSE, StartChainTicks)

\* #completed.resolve(..): the service's or the one-shot's reaction
CompletedSettles(w, s, r) ==
  IF w.completed[s] # "pending" THEN w
  ELSE Enq([w EXCEPT !.completed[s] = r],
           IF KindOf(graph)[s] = "service" THEN "childTerminated" ELSE "oneShotCompleted",
           s, "", ThenTicks)

\* the 'spawn' handler
OnSpawnEvent(w, s) ==
  CASE w.child[s] = "starting" ->
         [SpawnedSettles(w, s, "ok") EXCEPT !.child[s] = "started"]
    [] w.child[s] = "stopping" -> ActuallyTerminate(w, s)
    [] OTHER -> w

\* the 'error' handler
OnErrorEvent(w, s) ==
  [CompletedSettles(SpawnedSettles(w, s, "spawn-error"), s, "spawn-error")
     EXCEPT !.child[s] = "stopped"]

\* the 'close' handler; how: "zero", "nonzero" or "signal"
OnCloseEvent(w, s, how) ==
  [CompletedSettles(w, s, CloseResult(w.child[s], how)) EXCEPT !.child[s] = "stopped"]

(***************************************************************************)
(* Executor.executeTopLevel.                                               *)
(***************************************************************************)
RECURSIVE HoldTopLevel(_, _)
\* the loop over findTopLevelServices: getExecution and the entrypoint handle
HoldTopLevel(w, ss) ==
  IF ss = <<>> THEN w
  ELSE HoldTopLevel(addConsumer(getExecution(w, Head(ss)), Head(ss), "entry"), Tail(ss))

\* executeTopLevel up to its first await
executeTopLevel(w) ==
  [execute(HoldTopLevel(w, TopLevelServices), RootOf(graph)) EXCEPT !.topPc = "awaitRoot"]

\* executeTopLevel after `await this.execute(script)`
OnTopAwaitRoot(w) ==
  LET r  == RootOf(graph)
      w1 == [w EXCEPT !.topPc = "awaitServices", !.seen[r] = @ \cup {w.res[r]}]
  IN IF AllDone(w1, TopLevelServices)
       THEN Enq(w1, "topServicesDone", "main", "", ExecuteCallerTicks) ELSE w1

\* aggregateFailures(services) joined with the root's result; in watch mode
\* #analyzeAndExecute goes on after its await of executeTopLevel
OnTopServicesDone(w) ==
  LET w1 == [w EXCEPT !.topPc = "returned",
                      !.topResult = IF w.res[RootOf(graph)] = "fail"
                                       \/ \E s \in Range(TopLevelServices) : w.done[s] = "fail"
                                    THEN "fail" ELSE "ok"]
  IN IF w.watch.pc = "executing" THEN Enq(w1, "watchRunEnd", "main", "", ThenTicks)
     ELSE w1

\* execution.done.then(..) of executeTopLevel
OnTopDone(w, s) == IF w.done[s] = "fail" THEN notifyFailure(w) ELSE w

(***************************************************************************)
(* Initial state: a new Executor for an analysed graph.                    *)
(***************************************************************************)
\* the Watcher's fields when wireit runs without --watch: pc is the position
\* of #watch, analysis the result of the analysis of the current iteration,
\* watchers the number of open chokidar watchers, runs the number of
\* #analyzeAndExecute calls, unseen whether a file event has arrived that no
\* run has started after, orphans the scripts whose child of an earlier
\* Executor is still alive
WatchOff ==
  [pc |-> "off", stale |-> TRUE, executing |-> FALSE, update |-> "pending",
   analysis |-> "none", watchers |-> 0, runs |-> 0, unseen |-> FALSE,
   orphans |-> {}, executors |-> 0]

\* how many watcher file events are delivered at most
MaxFileChanges == 1

CommandScripts(g) == {s \in Scripts : KindOf(g)[s] \in {"oneshot", "service"}}
ServiceScripts(g) == {s \in Scripts : KindOf(g)[s] = "service"}

\* the persisted states explored: nothing fresh, only the services fresh,
\* everything fresh (the largest graph without the middle one)
PersistedChoices(g) ==
  IF g = "cross" THEN {{}, CommandScripts(g)}
  ELSE {{}, ServiceScripts(g), CommandScripts(g)}

\* the fields of a new Executor and of the executions it will make
ExecutorInit ==
  /\ topPc = "init"
  /\ topResult = "none"
  /\ created = [s \in Scripts |-> 0]
  /\ res = [s \in Scripts |-> "none"]
  /\ seen = [s \in Scripts |-> {}]
  /\ pc = [s \in Scripts |-> "init"]
  /\ svcState = [s \in Scripts |-> "initial"]
  /\ numConsumers = [s \in Scripts |-> 0]
  /\ handles = [s \in Scripts |-> {}]
  /\ done = [s \in Scripts |-> "pending"]
  /\ termSubs = [s \in Scripts |-> {}]
  /\ startWaiters = {}
  /\ startResults = [x \in Scripts \X Callers |-> "none"]
  /\ startCalled = {}
  /\ child = [s \in Scripts |-> "none"]
  /\ spawned = [s \in Scripts |-> "pending"]
  /\ completed = [s \in Scripts |-> "pending"]
  /\ spawnCount = [s \in Scripts |-> 0]
  /\ signals = [s \in Scripts |-> 0]
  /\ proc = [s \in Scripts |-> "none"]
  /\ abort = FALSE
  /\ failureOccured = FALSE
  /\ stopStartingNewScripts = FALSE
  /\ killRunningScripts = FALSE
  /\ killTopLevelServices = FALSE
  /\ policyApplied = FALSE
  /\ mq = <<>>
  /\ unexpected = {}
  /\ errs = [s \in Scripts |-> <<>>]
  /\ terminateCalls = [s \in Scripts |-> 0]
  /\ dead = FALSE
  /\ fileChanges = 0

\* no call of Fingerprint.compute is being followed
FingerprintOff ==
  [phase |-> "off", command |-> "none", files |-> "undefined",
   matched |-> <<>>, dependencies |-> <<>>, first |-> <<>>, second |-> <<>>]

\* the scripts of the graphs given to the analyzer, in reference order
CycleScripts == {"a", "b", "c"}
CycleOrder == <<"a", "b", "c">>

\* no analysis is being followed
AnalysisOff ==
  [phase |-> "off", dependencies |-> [s \in CycleScripts |-> <<>>],
   trail |-> <<>>, length |-> 0, printed |-> <<>>]

Init ==
  /\ graph \in GraphIds
  /\ failureMode \in FailureModes
  /\ persisted \in PersistedChoices(graph)
  /\ watch = WatchOff
  /\ fp = FingerprintOff
  /\ an = AnalysisOff
  /\ ExecutorInit

(***************************************************************************)
(* Actions.  An event-loop handler runs only when no reaction is pending.  *)
(***************************************************************************)
\* the handler is over; an exception that nobody caught is an unhandled
\* rejection, which ends the process or not, depending on the Node version
Finish(w) ==
  /\ Commit(w)
  /\ IF w.thrown THEN dead' \in BOOLEAN ELSE dead' = dead

Idle == mq = <<>> /\ ~dead

\* a reaction of kind k is next in the queue and all its hops are done
Ready(k) == ~dead /\ mq # <<>> /\ Head(mq).k = k /\ Head(mq).n = 0

Popped == [World EXCEPT !.mq = Tail(mq)]

\* cli/watcher: executor.executeTopLevel(root)
ExecuteTopLevel ==
  /\ Idle /\ topPc = "init"
  /\ Finish(executeTopLevel(World))
  /\ UNCHANGED fileChanges

\* Fingerprint.compute (glob and file hashing) finishes for script s
FingerprintReady(s) ==
  /\ Idle /\ pc[s] = "fp"
  /\ Finish(AfterFingerprint(World, s))
  /\ UNCHANGED fileChanges

\* the child of s reports 'spawn'
ChildSpawn(s) ==
  /\ Idle /\ proc[s] = "spawning"
  /\ Finish(OnSpawnEvent([World EXCEPT !.proc[s] = "running"], s))
  /\ UNCHANGED fileChanges

\* the child of s reports 'error' (it could not be spawned)
ChildError(s) ==
  /\ Idle /\ proc[s] = "spawning"
  /\ Finish(OnErrorEvent([World EXCEPT !.proc[s] = "errored"], s))
  /\ UNCHANGED fileChanges

\* the child of s reports 'close'
ChildClose(s) ==
  /\ Idle /\ proc[s] = "running"
  /\ \E how \in {"zero", "nonzero", "signal"} :
       Finish(OnCloseEvent([World EXCEPT !.proc[s] = "closed"], s, how))
  /\ UNCHANGED fileChanges

\* the abort deferred is resolved (SIGINT)
Abort ==
  /\ Idle /\ ~abort
  /\ Finish(Enq([World EXCEPT !.abort = TRUE], "abort", "main", "", ThenTicks))
  /\ UNCHANGED fileChanges

\* Watcher.#fileAddedOrChanged: #currentExecutor?.killTopLevelServices()
FileChanged ==
  /\ Idle /\ topPc # "init" /\ fileChanges < MaxFileChanges
  /\ fileChanges' = fileChanges + 1
  /\ Finish(killTopLevelServicesCall(World))

\* a promise in a chain passes its value on to the next one
Hop ==
  /\ ~dead /\ mq # <<>> /\ Head(mq).n > 0
  /\ mq' = Append(Tail(mq), [Head(mq) EXCEPT !.n = @ - 1])
  /\ UNCHANGED <<graph, failureMode, persisted, topPc, topResult, created, res,
                 seen, pc, svcState, numConsumers, handles, done, termSubs,
                 startWaiters, startResults, startCalled, child, spawned,
                 completed, spawnCount, signals, proc, abort, failureOccured,
                 stopStartingNewScripts, killRunningScripts,
                 killTopLevelServices, policyApplied, unexpected, errs,
                 terminateCalls, watch, dead, fileChanges, fp, an>>

RunAbort == Ready("abort") /\ Finish(OnAbort(Popped)) /\ UNCHANGED fileChanges

RunFailureOccured ==
  Ready("failureOccured") /\ Finish(OnFailureOccured(Popped)) /\ UNCHANGED fileChanges

RunRelease ==
  /\ Ready("release")
  /\ Finish(ReleaseConsumer(Popped, Head(mq).s, Head(mq).a))
  /\ UNCHANGED fileChanges

RunKillChild ==
  Ready("killChild") /\ Finish(Terminate(Popped, Head(mq).s)) /\ UNCHANGED fileChanges

RunTopDone ==
  Ready("topDone") /\ Finish(OnTopDone(Popped, Head(mq).s)) /\ UNCHANGED fileChanges

RunServiceTerminated ==
  /\ Ready("serviceTerminated")
  /\ Finish(onServiceTerminated(Popped, Head(mq).s))
  /\ UNCHANGED fileChanges

RunAllServicesStarted ==
  /\ Ready("allServicesStarted")
  /\ Finish(onAllServicesStarted(Popped, Head(mq).s))
  /\ UNCHANGED fileChanges

RunChildTerminated ==
  /\ Ready("childTerminated")
  /\ Finish(onChildTerminated(Popped, Head(mq).s, completed[Head(mq).s]))
  /\ UNCHANGED fileChanges

RunExecuteThen ==
  /\ Ready("executeThen")
  /\ Finish(OnExecuteThen(Popped, Head(mq).s, Head(mq).a))
  /\ UNCHANGED fileChanges

RunDepsDone ==
  Ready("depsDone") /\ Finish(OnDepsDone(Popped, Head(mq).s)) /\ UNCHANGED fileChanges

RunTopStart ==
  Ready("topStart") /\ Finish(start(Popped, Head(mq).s, "entry")) /\ UNCHANGED fileChanges

RunTopAwaitRoot ==
  Ready("topAwaitRoot") /\ Finish(OnTopAwaitRoot(Popped)) /\ UNCHANGED fileChanges

RunTopServicesDone ==
  Ready("topServicesDone") /\ Finish(OnTopServicesDone(Popped)) /\ UNCHANGED fileChanges

RunStartResolved ==
  /\ Ready("startResolved")
  /\ Finish(OnStartResolved(Popped, Head(mq).s, Head(mq).a))
  /\ UNCHANGED fileChanges

RunServicesReady ==
  Ready("servicesReady") /\ Finish(OnServicesReady(Popped, Head(mq).s)) /\ UNCHANGED fileChanges

RunOneShotCompleted ==
  /\ Ready("oneShotCompleted")
  /\ Finish(OnOneShotCompleted(Popped, Head(mq).s))
  /\ UNCHANGED fileChanges

Next ==
  \/ ExecuteTopLevel
  \/ \E s \in Scripts : FingerprintReady(s)
  \/ \E s \in Scripts : ChildSpawn(s)
  \/ \E s \in Scripts : ChildError(s)
  \/ \E s \in Scripts : ChildClose(s)
  \/ Abort
  \/ FileChanged
  \/ Hop
  \/ RunAbort
  \/ RunFailureOccured
  \/ RunRelease
  \/ RunKillChild
  \/ RunTopDone
  \/ RunServiceTerminated
  \/ RunAllServicesStarted
  \/ RunChildTerminated
  \/ RunExecuteThen
  \/ RunDepsDone
  \/ RunTopStart
  \/ RunTopAwaitRoot
  \/ RunTopServicesDone
  \/ RunStartResolved
  \/ RunServicesReady
  \/ RunOneShotCompleted

Spec == Init /\ [][Next]_vars

(***************************************************************************)
(* Watch mode: Watcher.watch drives one analysis and one Executor per      *)
(* iteration of its loop.                                                  *)
(***************************************************************************)
\* new Executor(..) of an iteration: the fields of ExecutorInit again; the
\* constructor's reaction on an abort promise that is settled already runs
\* at once; children of the Executor before that are alive are left behind
NewExecutor(w) ==
  LET w1 == [w EXCEPT
               !.topPc = "init", !.topResult = "none",
               !.created = [s \in Scripts |-> 0],
               !.res = [s \in Scripts |-> "none"],
               !.seen = [s \in Scripts |-> {}],
               !.pc = [s \in Scripts |-> "init"],
               !.svcState = [s \in Scripts |-> "initial"],
               !.numConsumers = [s \in Scripts |-> 0],
               !.handles = [s \in Scripts |-> {}],
               !.done = [s \in Scripts |-> "pending"],
               !.termSubs = [s \in Scripts |-> {}],
               !.startWaiters = {},
               !.startResults = [x \in Scripts \X Callers |-> "none"],
               !.startCalled = {},
               !.child = [s \in Scripts |-> "none"],
               !.spawned = [s \in Scripts |-> "pending"],
               !.completed = [s \in Scripts |-> "pending"],
               !.spawnCount = [s \in Scripts |-> 0],
               !.signals = [s \in Scripts |-> 0],
               !.proc = [s \in Scripts |-> "none"],
               !.failureOccured = FALSE,
               !.stopStartingNewScripts = FALSE,
               !.killRunningScripts = FALSE,
               !.killTopLevelServices = FALSE,
               !.policyApplied = FALSE,
               !.unexpected = {},
               !.errs = [s \in Scripts |-> <<>>],
               !.terminateCalls = [s \in Scripts |-> 0],
               !.watch.orphans = @ \cup {s \in Scripts : w.proc[s] \in {"spawning", "running"}},
               !.watch.executors = @ + 1]
  IN IF w.abort THEN Enq(w1, "abort", "main", "", ThenTicks) ELSE w1

\* #update.resolve(): the loop goes on if it is waiting for #update
UpdateResolve(w) ==
  IF w.watch.update = "resolved" THEN w
  ELSE LET w1 == [w EXCEPT !.watch.update = "resolved"] IN
       IF w.watch.pc = "waiting"
         THEN Enq([w1 EXCEPT !.watch.pc = "woken"], "watchLoop", "main", "", ThenTicks)
         ELSE w1

\* `await this.#update.promise` in #watch
AwaitUpdate(w) ==
  IF w.watch.update = "resolved"
    THEN Enq([w EXCEPT !.watch.pc = "woken"], "watchLoop", "main", "", ThenTicks)
    ELSE [w EXCEPT !.watch.pc = "waiting"]

\* #analyzeAndExecute up to `await analyzer.analyze(..)`
analyzeAndExecute(w) ==
  [w EXCEPT !.watch.stale = FALSE, !.watch.executing = TRUE,
            !.watch.unseen = FALSE, !.watch.runs = @ + 1,
            !.watch.analysis = "pending", !.watch.pc = "analyzing"]

\* #clearWatchers: every watcher is taken off the list and closed
clearWatchers(w) == [w EXCEPT !.watch.watchers = 0]

\* #watch with the stale test placed ahead of the abort test
WatchLoopTopStaleFirst(w) ==
  IF w.watch.stale /\ ~w.watch.executing THEN analyzeAndExecute(w)
  ELSE IF w.abort
    THEN Enq([clearWatchers(w) EXCEPT !.watch.pc = "closing"],
             "watchReturn", "main", "", ThenTicks)
  ELSE AwaitUpdate(w)

\* #watch at the top of its while loop
WatchLoopTop(w) ==
  IF w.abort
    THEN Enq([clearWatchers(w) EXCEPT !.watch.pc = "closing"],
             "watchReturn", "main", "", ThenTicks)
    ELSE IF w.watch.stale /\ ~w.watch.executing THEN analyzeAndExecute(w)
    ELSE AwaitUpdate(w)

\* #watch after `await this.#update.promise`: a new Deferred, then the loop
OnWatchLoop(w) == WatchLoopTop([w EXCEPT !.watch.update = "pending"])

\* #analyzeAndExecute after analyze(): the old watchers are closed first
OnAnalysisDone(w, result) ==
  Enq([clearWatchers(w) EXCEPT !.watch.analysis = result],
      "watchClosed", "main", "", ThenTicks)

\* #analyzeAndExecute going on to the Executor whatever the analysis said
OnWatchClosedWhatever(w) ==
  executeTopLevel(NewExecutor([w EXCEPT !.watch.watchers = @ + 1,
                                        !.watch.pc = "executing"]))

\* #analyzeAndExecute after `await this.#clearWatchers()`: process.exit(1)
\* on diagnostics, else the watchers, a new Executor and executeTopLevel
OnWatchClosed(w) ==
  IF w.watch.analysis = "diagnostics" THEN [w EXCEPT !.watch.pc = "exited"]
  ELSE executeTopLevel(NewExecutor([w EXCEPT !.watch.watchers = @ + 1,
                                             !.watch.pc = "executing"]))

\* #analyzeAndExecute after `await executeTopLevel(..)`
OnWatchRunEnd(w) ==
  Enq(UpdateResolve([w EXCEPT !.watch.executing = FALSE, !.watch.pc = "afterRun"]),
      "watchAfterRun", "main", "", ThenTicks)

\* Watcher.#fileAddedOrChanged
fileAddedOrChanged(w) ==
  killTopLevelServicesCall(
    UpdateResolve([w EXCEPT !.watch.stale = TRUE, !.watch.unseen = TRUE]))

\* Watcher.watch(..): the constructor and the first pass of #watch
WatchStart ==
  /\ Idle /\ watch.pc = "init"
  /\ Finish(WatchLoopTop(World))
  /\ UNCHANGED fileChanges

\* analyzer.analyze(..) finishes, with a graph or with diagnostics
AnalysisDone ==
  /\ Idle /\ watch.pc = "analyzing"
  /\ \E result \in {"ok", "diagnostics"} :
       Finish(OnAnalysisDone([World EXCEPT !.watch.pc = "clearing"], result))
  /\ UNCHANGED fileChanges

\* a chokidar watcher reports 'add', 'change' or 'unlink'
WatchFileChanged ==
  /\ Idle /\ watch.watchers > 0 /\ fileChanges < MaxFileChanges
  /\ fileChanges' = fileChanges + 1
  /\ Finish(fileAddedOrChanged(World))

\* SIGINT: the Watcher's reaction was registered first, then the reaction
\* of the Executor, if there is one
WatchAbort ==
  /\ Idle /\ ~abort /\ watch.pc # "init"
  /\ LET w1 == Enq([World EXCEPT !.abort = TRUE], "watchAbort", "main", "", ThenTicks)
     IN Finish(IF topPc = "init" THEN w1 ELSE Enq(w1, "abort", "main", "", ThenTicks))
  /\ UNCHANGED fileChanges

\* a child that was left behind by an earlier Executor ends
OrphanExit(s) ==
  /\ Idle /\ s \in watch.orphans
  /\ Finish([World EXCEPT !.watch.orphans = @ \ {s}])
  /\ UNCHANGED fileChanges

RunWatchAbort ==
  Ready("watchAbort") /\ Finish(UpdateResolve(Popped)) /\ UNCHANGED fileChanges

RunWatchLoop ==
  Ready("watchLoop") /\ Finish(OnWatchLoop(Popped)) /\ UNCHANGED fileChanges

\* process.exit(1) ends the process
RunWatchClosed ==
  /\ Ready("watchClosed")
  /\ LET w == OnWatchClosed(Popped) IN
       /\ Commit(w)
       /\ dead' = (w.watch.pc = "exited")
  /\ UNCHANGED fileChanges

RunWatchRunEnd ==
  Ready("watchRunEnd") /\ Finish(OnWatchRunEnd(Popped)) /\ UNCHANGED fileChanges

RunWatchAfterRun ==
  Ready("watchAfterRun") /\ Finish(AwaitUpdate(Popped)) /\ UNCHANGED fileChanges

\* #watch returns, its finally block having closed the watchers
RunWatchReturn ==
  /\ Ready("watchReturn")
  /\ Finish([Popped EXCEPT !.watch.pc = "returned"])
  /\ UNCHANGED fileChanges

WatchInit ==
  /\ graph \in {"chain", "plusTop"}
  /\ failureMode \in FailureModes
  /\ persisted = {}
  /\ watch = [WatchOff EXCEPT !.pc = "init"]
  /\ fp = FingerprintOff
  /\ an = AnalysisOff
  /\ ExecutorInit

WatchNext ==
  \/ WatchStart
  \/ AnalysisDone
  \/ WatchFileChanged
  \/ WatchAbort
  \/ \E s \in Scripts : OrphanExit(s)
  \/ RunWatchAbort
  \/ RunWatchLoop
  \/ RunWatchClosed
  \/ RunWatchRunEnd
  \/ RunWatchAfterRun
  \/ RunWatchReturn
  \/ \E s \in Scripts : FingerprintReady(s)
  \/ \E s \in Scripts : ChildSpawn(s)
  \/ \E s \in Scripts : ChildError(s)
  \/ \E s \in Scripts : ChildClose(s)
  \/ Hop
  \/ RunAbort
  \/ RunFailureOccured
  \/ RunRelease
  \/ RunKillChild
  \/ RunTopDone
  \/ RunServiceTerminated
  \/ RunAllServicesStarted
  \/ RunChildTerminated
  \/ RunExecuteThen
  \/ RunDepsDone
  \/ RunTopStart
  \/ RunTopAwaitRoot
  \/ RunTopServicesDone
  \/ RunStartResolved
  \/ RunServicesReady
  \/ RunOneShotCompleted

WatchSpec == WatchInit /\ [][WatchNext]_vars

\* nothing is left that the event loop or the operating system is bound to
\* do: no reaction is queued, no analysis or hashing is under way, no spawn
\* is outstanding, and no one-shot command and no signalled child is still
\* running.  What may still happen is a file event, SIGINT, or the exit of
\* a service that nobody signalled.
AtRest ==
  /\ mq = <<>>
  /\ watch.pc \notin {"init", "analyzing"}
  /\ \A s \in Scripts :
       /\ pc[s] # "fp"
       /\ proc[s] # "spawning"
       /\ proc[s] = "running" => (KindOf(graph)[s] = "service" /\ signals[s] = 0)

(***************************************************************************)
(* The supervisor on its own: one ScriptChildProcess per command of the    *)
(* graph, made, asked to terminate and sent its events in any order, with  *)
(* nobody subscribed to its promises.                                      *)
(***************************************************************************)
\* how many times terminate() is called on one child
MaxTerminateCalls == 2

SupervisorInit ==
  Init /\ graph = "fanin" /\ failureMode = "continue" /\ persisted = {}

\* no reaction is registered on spawned or completed
Unsubscribed(w) == [w EXCEPT !.mq = <<>>]

SupervisorNew(s) ==
  /\ KindOf(graph)[s] \in {"service", "oneshot"} /\ child[s] = "none"
  /\ Commit(Unsubscribed(NewChild(World, s)))
  /\ UNCHANGED <<dead, fileChanges>>

SupervisorTerminate(s) ==
  /\ child[s] # "none" /\ terminateCalls[s] < MaxTerminateCalls
  /\ Commit(Terminate(World, s))
  /\ UNCHANGED <<dead, fileChanges>>

SupervisorSpawn(s) ==
  /\ proc[s] = "spawning"
  /\ Commit(Unsubscribed(OnSpawnEvent([World EXCEPT !.proc[s] = "running"], s)))
  /\ UNCHANGED <<dead, fileChanges>>

SupervisorError(s) ==
  /\ proc[s] = "spawning"
  /\ Commit(Unsubscribed(OnErrorEvent([World EXCEPT !.proc[s] = "errored"], s)))
  /\ UNCHANGED <<dead, fileChanges>>

SupervisorClose(s) ==
  /\ proc[s] = "running"
  /\ \E how \in {"zero", "nonzero", "signal"} :
       Commit(Unsubscribed(OnCloseEvent([World EXCEPT !.proc[s] = "closed"], s, how)))
  /\ UNCHANGED <<dead, fileChanges>>

SupervisorNext ==
  \E s \in Scripts :
    \/ SupervisorNew(s)
    \/ SupervisorTerminate(s)
    \/ SupervisorSpawn(s)
    \/ SupervisorError(s)
    \/ SupervisorClose(s)

SupervisorSpec == SupervisorInit /\ [][SupervisorNext]_vars

(***************************************************************************)
(* Properties.                                                             *)
(***************************************************************************)
Services == {s \in Scripts : KindOf(graph)[s] = "service"}
OneShots == {s \in Scripts : KindOf(graph)[s] = "oneshot"}

\* the scripts that call Executor.execute(s): its dependents, and
\* executeTopLevel for the root
ExecuteCallers(s) == Range(Dependents(graph, s))

\* C1: all calls of Executor.execute for one script share one execution
\* and one result: at most one execution object is ever made per script,
\* the stored result promise settles once and for all, and every caller
\* has been handed that same terminal result.
C1_OneExecutionOneResult ==
  [][\A s \in Scripts :
       /\ created'[s] <= 1
       /\ seen'[s] \subseteq ({res'[s]} \cap {"ok", "fail"})
       /\ res[s] \in {"ok", "fail"} => res'[s] = res[s]]_vars

\* C1 witness: a script with two dependents whose single execution has
\* delivered its result to both of them and to nobody a different one
C1_Witness ==
  \E s \in Scripts :
    /\ Cardinality(ExecuteCallers(s)) >= 2
    /\ created[s] = 1
    /\ seen[s] = {res[s]}
    /\ \A p \in ExecuteCallers(s) : pc[p] \notin {"init", "deps"}

LeftStarted == {"stopping", "stopped", "failing", "failed"}

\* C2: a command's child process is created at most once per script, and a
\* service that has left `started` (it is stopping, stopped, failing or
\* failed) never goes to `starting` or `started` again, whatever arrives.
C2_SpawnAtMostOnce ==
  [][\A s \in Scripts :
       /\ spawnCount'[s] <= 1
       /\ svcState[s] \in LeftStarted => svcState'[s] \notin {"starting", "started"}]_vars

\* C2 witness: a service that spawned its child, failed, and was then asked
\* to start again (start() threw), still with its one child
C2_Witness ==
  \E s \in Services :
    /\ svcState[s] = "failed"
    /\ spawnCount[s] = 1
    /\ <<s, "start">> \in unexpected

\* the promise behind consumer handle h of a service is still pending
HandlePending(h) ==
  IF h = "entry" THEN ~killTopLevelServices ELSE done[h] = "pending"

\* C3: a started service enters `stopping`, sending terminate to its child,
\* exactly when its last outstanding consumer handle is released: the step
\* to `stopping` leaves no handle and marks the child for termination; a
\* service is never `stopping` while a handle is outstanding; and once the
\* reactions have run, a service that is still `started` has a handle whose
\* consumer is unfinished (or, for the entrypoint, not yet told to stop).
C3_StoppingAtLastRelease ==
  [][\A s \in Services :
       /\ (svcState[s] = "started" /\ svcState'[s] = "stopping")
            => (numConsumers'[s] = 0 /\ handles'[s] = {}
                /\ child'[s] \in {"stopping", "stopped"})
       /\ svcState'[s] = "stopping" => handles'[s] = {}
       /\ (svcState'[s] = "started" /\ mq' = <<>>)
            => \E h \in handles'[s] : HandlePending(h)']_vars

\* C4: a started service holds at least one unreleased consumer handle, and
\* the release that takes the count to zero moves it to `stopping` in the
\* same step; there is no state in which a service is `started` with a
\* count of zero.
C4_StartedHoldsHandle ==
  \A s \in Services :
    svcState[s] = "started" => (numConsumers[s] >= 1 /\ handles[s] # {})

\* C5: a promise returned by start() resolves only after the service's own
\* child has reported its spawn result, and with that result; so a one-shot
\* that awaits start() has spawned its command only if every service it
\* needs has spawned.
C5_StartResolvesAfterSpawn ==
  /\ \A s \in Services : \A who \in Callers :
       startResults[<<s, who>>] # "none"
         => /\ startResults[<<s, who>>] = spawned[s]
            /\ spawned[s] \in {"ok", "spawn-error"}
            /\ proc[s] \notin {"none", "spawning"}
  /\ \A p \in OneShots : \A u \in Range(UpstreamServices(graph, p)) :
       spawnCount[p] > 0 => (spawned[u] = "ok" /\ proc[u] \notin {"none", "spawning"})

\* C5 witness: start() of one service has resolved with success both for
\* the consumer that called it first (before the child existed) and for the
\* entrypoint that called it when it was started, and the consumer has
\* spawned its command
C5_Witness ==
  /\ graph = "plusTop"
  /\ startResults[<<"svc", "a">>] = "ok"
  /\ startResults[<<"svc", "entry">>] = "ok"
  /\ spawnCount["a"] = 1

\* service s creates its child in this step
Spawns(s) == spawnCount'[s] > spawnCount[s]

\* C6: a service creates its child only after every upstream service has
\* been started successfully: not while an upstream spawn result is
\* pending, not after an upstream spawn error, and not after the upstream
\* service has terminated.
C6_SpawnAfterUpstreamStarted ==
  [][\A s \in Services : Spawns(s) =>
       \A u \in Range(UpstreamServices(graph, s)) :
         /\ spawned[u] = "ok"
         /\ svcState[u] = "started"
         /\ done[u] = "pending"]_vars

\* C7: a top-level service keeps its entrypoint handle until abort: it does
\* not go from `started` to `stopping` while neither abort nor
\* killTopLevelServices has happened, and once abort has been processed and
\* no other consumer holds it, it is no longer `started` (its child has been
\* told to terminate).
C7_TopLevelHeldUntilAbort ==
  [][\A s \in Range(TopLevelServices) :
       /\ (svcState[s] = "started" /\ svcState'[s] = "stopping")
            => (abort' \/ killTopLevelServices')
       /\ (~abort' /\ ~killTopLevelServices' /\ spawnCount'[s] > 0)
            => "entry" \in handles'[s]
       /\ (abort' /\ mq' = <<>> /\ handles'[s] \ {"entry"} = {})
            => svcState'[s] # "started"]_vars

\* C8: a service never spawns its child because of execute()/fingerprinting
\* alone: it has left `awaiting-first-consumer`, or has a child, only if
\* start() has been called on it.
C8_NoSpawnWithoutStart ==
  \A s \in Services :
    (spawnCount[s] > 0
       \/ svcState[s] \notin {"initial", "fingerprinting", "awaiting-first-consumer"})
      => s \in startCalled

\* C8 witness: the invocation has returned, every consumer of a service was
\* fresh, nothing called start(), and the service still awaits its first
\* consumer without a child
C8_Witness ==
  /\ topPc = "returned"
  /\ \E s \in Services :
       /\ svcState[s] = "awaiting-first-consumer"
       /\ spawnCount[s] = 0
       /\ s \notin startCalled
       /\ findConsumersOfThisService(graph, s) # <<>>
       /\ \A c \in Range(findConsumersOfThisService(graph, s)) :
            c \in persisted /\ done[c] = "ok"

\* the invocation has gone as far as it can: no reaction, fingerprint or
\* spawn result is outstanding and every one-shot child has exited
Quiescent ==
  /\ topPc # "init"
  /\ mq = <<>>
  /\ \A s \in Scripts : pc[s] # "fp" /\ proc[s] # "spawning"
  /\ \A p \in OneShots : proc[p] # "running"

\* nothing has failed and nobody has asked the invocation to stop
Undisturbed == ~abort /\ ~killTopLevelServices /\ ~failureOccured /\ ~dead

RECURSIVE Needed(_)
\* service s is the entry point or top-level, or a script that has to run
\* (a stale one-shot, or a needed service) collects it from its dependencies
Needed(s) ==
  \/ s \in Range(TopLevelServices)
  \/ \E p \in Range(Downstream(graph, s)) :
       \/ KindOf(graph)[p] = "oneshot" /\ p \notin persisted
       \/ KindOf(graph)[p] = "service" /\ Needed(p)

C10_FlagsMatchFailureMode ==
  ~abort =>
    /\ (failureOccured /\ mq = <<>> /\ ~dead) => policyApplied
    /\ ~failureOccured => (~stopStartingNewScripts /\ ~killRunningScripts)
    /\ failureMode = "continue" => (~stopStartingNewScripts /\ ~killRunningScripts)
    /\ failureMode = "no-new" =>
         (~killRunningScripts /\ (policyApplied => stopStartingNewScripts))
    /\ failureMode = "kill" =>
         (policyApplied => (stopStartingNewScripts /\ killRunningScripts))

\* C10 witness: a failure has been handled under `no-new` without abort:
\* new scripts are stopped, running ones are not killed
C10_Witness ==
  /\ failureMode = "no-new"
  /\ policyApplied /\ ~abort
  /\ stopStartingNewScripts /\ ~killRunningScripts

\* a reaction of kind k is still waiting in the queue
Queued(k) == \E i \in 1..Len(mq) : mq[i].k = k

\* C11: when the abort signal fires, whatever the failure mode and whether
\* or not a failure has occurred, the executor sets stop-starting-new-scripts,
\* kill-running-scripts and kill-top-level-services together in one step:
\* the step in which the abort reaction runs ends with all three set, and
\* they stay set.
C11_AbortSetsAllFlags ==
  [][/\ (Queued("abort") /\ ~Queued("abort")')
          => (stopStartingNewScripts' /\ killRunningScripts' /\ killTopLevelServices')
     /\ (abort' /\ ~Queued("abort")')
          => (stopStartingNewScripts' /\ killRunningScripts' /\ killTopLevelServices')]_vars

\* C11 witness: abort has been handled under `continue` with no failure,
\* and all three flags are set
C11_Witness ==
  /\ failureMode = "continue" /\ ~failureOccured
  /\ abort /\ ~Queued("abort")
  /\ stopStartingNewScripts /\ killRunningScripts /\ killTopLevelServices

\* C12: once the first failure has been handled under failure mode `kill`
\* (no external abort), the entrypoint handles on the top-level services
\* are released, so no top-level service is left `started`.
C12_KillReleasesTopLevel ==
  (failureMode = "kill" /\ policyApplied /\ ~abort /\ mq = <<>> /\ ~dead) =>
    \A s \in Range(TopLevelServices) :
      svcState[s] # "started" /\ (spawnCount[s] > 0 => "entry" \notin handles[s])

\* C13: an execute(script) whose result is a failure has called
\* notifyFailure() by the time the result is stored, hence before any caller
\* of execute() is handed it.
C13_FailureNotifiedBeforeDelivery ==
  \A s \in Scripts :
    (res[s] = "fail" \/ "fail" \in seen[s]) => failureOccured

\* C13 witness: a failed result has been delivered to a dependent, which
\* failed in turn, and the failure had been notified
C13_Witness ==
  \E s \in Scripts : \E p \in ExecuteCallers(s) :
    /\ "fail" \in seen[s]
    /\ res[p] = "fail"
    /\ failureOccured

\* the number of failureOccured reactions waiting in the queue
QueuedPolicies == Cardinality({i \in 1..Len(mq) : mq[i].k = "failureOccured"})

\* C14: notifyFailure() is idempotent.  The failure policy is triggered by
\* the first call only: once it has been applied no further reaction is ever
\* queued, and a step that is neither the abort reaction nor the watcher's
\* killTopLevelServices() leaves the three flags as they are.
C14_NotifyFailureIdempotent ==
  [][/\ QueuedPolicies' <= 1
     /\ failureOccured => (failureOccured' /\ QueuedPolicies' <= QueuedPolicies)
     /\ policyApplied =>
          /\ policyApplied' /\ QueuedPolicies' = 0
          /\ ~(Queued("abort") /\ ~Queued("abort")') =>
               /\ stopStartingNewScripts' = stopStartingNewScripts
               /\ killRunningScripts' = killRunningScripts
               /\ (fileChanges' = fileChanges =>
                     killTopLevelServices' = killTopLevelServices)]_vars

\* C14 witness: two scripts have failed, so notifyFailure() has been called
\* at least twice, and the policy has been applied
C14_Witness ==
  /\ policyApplied /\ failureMode = "no-new" /\ ~abort
  /\ \E s, t \in Scripts : s # t /\ res[s] = "fail" /\ res[t] = "fail"
  /\ stopStartingNewScripts /\ ~killRunningScripts

\* the dependencies of p whose execute() result is a failure
FailedDeps(p) == {d \in Range(DepsOf(graph)[p]) : res[d] = "fail"}

\* the Failure objects carried by the failed dependencies of p
FailuresOfDeps(p) == UNION {Range(errs[d]) : d \in FailedDeps(p)}

\* a list without repeated entries
NoDuplicates(q) == \A i, j \in 1..Len(q) : q[i] = q[j] => i = j

\* C15: executeDependencies returns only when every dependency has a
\* result; it returns a failure exactly when at least one dependency
\* failed, and that failure carries the union of the dependencies'
\* failures, each once.  A no-command or service execution whose
\* dependencies failed returns that failure and never a success.
C15_DependencyFailuresPropagate ==
  [][\A p \in Scripts :
       /\ (pc[p] = "deps" /\ pc'[p] # "deps") =>
            /\ \A d \in Range(DepsOf(graph)[p]) : res[d] \in {"ok", "fail"}
            /\ (pc'[p] = "fp") <=> (FailedDeps(p) = {})
            /\ FailedDeps(p) # {} =>
                 /\ pc'[p] = "done"
                 /\ Range(errs'[p]) = FailuresOfDeps(p)
                 /\ NoDuplicates(errs'[p])
       /\ (KindOf(graph)[p] \in {"noop", "service"} /\ FailedDeps(p)' # {}
             /\ res'[p] \in {"ok", "fail"}) =>
            /\ res'[p] = "fail"
            /\ Range(errs'[p]) = FailuresOfDeps(p)'
            /\ NoDuplicates(errs'[p])]_vars

\* C15 witness: the failure of one script has reached a no-command script
\* along two paths, through a no-command script and through a service
C15_Witness ==
  /\ graph = "diamond"
  /\ res["a"] = "fail" /\ res["svc"] = "fail" /\ res["main"] = "fail"
  /\ errs["a"] = <<"b">> /\ errs["svc"] = <<"b">> /\ errs["main"] = <<"b">>

\* C16: a service in `stopping` whose child completes with the result the
\* supervisor reports after terminate() enters `stopped`, and its done
\* settles with success.
C16_StoppingEndsStopped ==
  [][\A s \in Services :
       (svcState[s] = "stopping" /\ svcState'[s] # "stopping"
          /\ completed'[s] = CloseResult("stopping", "signal")) =>
         (svcState'[s] = "stopped" /\ done'[s] = "ok")]_vars

\* the results of a child that completed without terminate() being asked
OwnExitResults == {"ok", "signal", "exit-non-zero"}

C18_UpstreamDownFailsStarted ==
  [][\A s \in Services :
       /\ (svcState[s] = "started" /\ Ready("serviceTerminated") /\ Head(mq).s = s) =>
            /\ svcState'[s] = "failing"
            /\ child'[s] \in {"stopping", "stopped"}
            /\ child[s] = "started" => signals'[s] = signals[s] + 1
       /\ (svcState[s] = "failing" /\ Ready("childTerminated") /\ Head(mq).s = s) =>
            (svcState'[s] = "failed" /\ done'[s] = "fail")
       /\ (svcState[s] = "failing" /\ svcState'[s] # "failing") =>
            (svcState'[s] = "failed" /\ done'[s] = "fail")]_vars

\* C18 witness: a started service whose upstream service failed has
\* signalled its own child and, once that child closed, has failed
C18_Witness ==
  \E s \in Services : \E u \in Range(DepsOf(graph)[s]) \cap Services :
    /\ svcState[u] = "failed"
    /\ svcState[s] = "failed" /\ done[s] = "fail"
    /\ signals[s] = 1 /\ completed[s] = "terminated"
    /\ "entry" \in handles[s] /\ ~abort /\ fileChanges = 0

\* C19: when a service it depends on terminates while a service is
\* `starting`, the service enters `failed`, its done settles with a failure,
\* and it never spawns its child, not even when the start() promises of the
\* services it depends on resolve afterwards.
C19_UpstreamDownFailsStarting ==
  [][\A s \in Services :
       /\ (svcState[s] = "starting" /\ Ready("serviceTerminated") /\ Head(mq).s = s) =>
            /\ svcState'[s] = "failed" /\ done'[s] = "fail"
            /\ spawnCount'[s] = 0 /\ child'[s] = "none"
       /\ svcState[s] = "failed" =>
            /\ svcState'[s] = "failed"
            /\ spawnCount'[s] = spawnCount[s]
            /\ proc'[s] = "none" <=> proc[s] = "none"]_vars

\* C19 witness: a service failed while starting; afterwards the start()
\* promises it was waiting for resolved and #onAllServicesStarted ran, and
\* the service still has no child
C19_Witness ==
  \E s \in Services :
    /\ graph = "chain"
    /\ svcState[s] = "failed" /\ done[s] = "fail"
    /\ spawnCount[s] = 0 /\ child[s] = "none" /\ proc[s] = "none"
    /\ UpstreamServices(graph, s) # <<>>
    /\ \A u \in Range(UpstreamServices(graph, s)) : startResults[<<u, s>>] # "none"
    /\ mq = <<>>

\* C20: whenever a service has ended `failed`, whether it is a top-level
\* service or one started by a consumer, the executor has been notified of
\* the failure once the reactions to its done have run.
C20_FailedServiceNotifies ==
  \A s \in Services :
    (svcState[s] = "failed" /\ mq = <<>> /\ ~dead) => failureOccured

\* the scripts that run a command, and so may have a child process
Commands == Services \cup OneShots

\* C21: terminate() on a child that is still `starting` sends no signal at
\* that time and moves the child to `stopping`; the signal is sent in the
\* step in which the spawn event arrives, and the completion that follows
\* is reported as `terminated`.
C21_TerminateDeferredUntilSpawn ==
  [][\A s \in Commands :
       /\ (child[s] = "starting" /\ child'[s] = "stopping") =>
            (signals'[s] = signals[s] /\ proc'[s] = "spawning")
       /\ (child'[s] = "stopping" /\ proc'[s] = "spawning") => signals'[s] = 0
       /\ (child[s] = "stopping" /\ proc[s] = "spawning" /\ proc'[s] = "running") =>
            (signals'[s] = signals[s] + 1 /\ child'[s] = "stopping")
       /\ (child[s] = "stopping" /\ proc[s] = "running" /\ proc'[s] = "closed") =>
            completed'[s] = "terminated"]_vars

\* C21 witness: a child that was asked to terminate before its spawn event
\* (its spawned promise was never resolved) has been signalled once and has
\* completed as `terminated`
C21_Witness ==
  \E s \in Commands :
    /\ child[s] = "stopped" /\ proc[s] = "closed"
    /\ spawned[s] = "pending"
    /\ signals[s] = 1 /\ completed[s] = "terminated"

\* C22: completed resolves once, with one categorised result: `terminated`
\* exactly when terminate() had been called before the child closed,
\* whatever its exit; otherwise `signal`, `exit-non-zero` or ok according
\* to how it closed; `spawn-error` when it could not be spawned.
C22_CompletedCategorised ==
  [][\A s \in Commands :
       /\ completed[s] # "pending" => completed'[s] = completed[s]
       /\ (proc[s] = "running" /\ proc'[s] = "closed") =>
            /\ completed[s] = "pending"
            /\ (completed'[s] = "terminated") <=> (terminateCalls[s] > 0)
            /\ terminateCalls[s] = 0 =>
                 \E how \in {"zero", "nonzero", "signal"} :
                   completed'[s] = CloseResult(child[s], how)
       /\ (proc[s] = "spawning" /\ proc'[s] = "errored") =>
            completed'[s] = "spawn-error"
       /\ \A how \in {"zero", "nonzero", "signal"} :
            /\ CloseResult("stopping", how) = "terminated"
            /\ CloseResult("started", how) =
                 (CASE how = "signal"  -> "signal"
                    [] how = "nonzero" -> "exit-non-zero"
                    [] how = "zero"    -> "ok")]_vars

\* C22 witness: one child closed after terminate() had been called,
\* another was killed by a signal nobody asked for, a third could not be
\* spawned
C22_Witness ==
  \E s, t, u \in Commands :
    /\ completed[s] = "terminated" /\ terminateCalls[s] > 0
    /\ completed[t] = "signal" /\ terminateCalls[t] = 0
    /\ completed[u] = "spawn-error"

\* position of a ScriptChildProcessState in its declared order; "none"
\* stands for a script whose child has not been made
StateRank(st) ==
  CASE st = "none"     -> 0
    [] st = "starting" -> 1
    [] st = "started"  -> 2
    [] st = "stopping" -> 3
    [] st = "stopped"  -> 4

\* C23: the state of a child only moves forward through starting, started,
\* stopping, stopped; a spawn error moves it to `stopped` directly;
\* `stopped` is terminal; and a child in `stopping` that has been signalled,
\* or in `stopped`, is never signalled again.
C23_ChildStateForward ==
  [][\A s \in Commands :
       /\ StateRank(child'[s]) >= StateRank(child[s])
       /\ (proc[s] = "spawning" /\ proc'[s] = "errored") => child'[s] = "stopped"
       /\ child[s] = "stopped" => (child'[s] = "stopped" /\ signals'[s] = signals[s])
       /\ (child[s] = "stopping" /\ proc[s] # "spawning") => signals'[s] = signals[s]
       /\ signals'[s] <= 1]_vars

\* C23 witness: terminate() was called twice on a child that went through
\* every state, and once the child had stopped on a child that could not be
\* spawned: one signal for the first, none for the second
C23_Witness ==
  \E s, t \in Commands :
    /\ child[s] = "stopped" /\ spawned[s] = "ok" /\ completed[s] = "terminated"
    /\ terminateCalls[s] = 2 /\ signals[s] = 1
    /\ child[t] = "stopped" /\ completed[t] = "spawn-error"
    /\ terminateCalls[t] = 1 /\ signals[t] = 0

\* C24: once a child's spawn event or error event has arrived, its spawned
\* promise is settled (with success or spawn-error), whatever terminate()
\* calls came before; and it settles once.
C24_SpawnedDelivered ==
  \A s \in Commands :
    proc[s] \in {"running", "closed", "errored"} => spawned[s] \in {"ok", "spawn-error"}

\* C25: the first run of the watch loop starts without any file event, and
\* a file event that arrives before abort, also one that arrives while a
\* run is in progress, is followed by a further run that starts after it:
\* as long as no run has started after the event (and neither SIGINT has
\* arrived nor the process has ended) the program is not at rest.
C25_NoLostChange ==
  /\ watch.runs = 0 => fileChanges = 0
  /\ (watch.unseen /\ ~abort /\ ~dead) => ~AtRest

\* C26: in watch mode a file event that arrives during a run releases the
\* entrypoint handles of that Executor, so that once the reactions have run
\* no top-level service of the run is left `started` with a child that has
\* not been signalled; and a child of a top-level service made by an
\* earlier Executor is never alive beside the current one.
C26_FileEventRestartsService ==
  /\ (watch.pc = "executing" /\ watch.unseen /\ mq = <<>> /\ ~dead) =>
       \A s \in Range(TopLevelServices) :
         ~(svcState[s] = "started" /\ signals[s] = 0 /\ proc[s] = "running")
  /\ \A s \in Range(TopLevelServices) : s \notin watch.orphans


\* C27: once the abort promise has settled the watch loop starts no further
\* run; when no run is in progress and the loop has nothing left to do it
\* has returned; and when it has returned every file watcher is closed.
C27_AbortEndsWatch ==
  [][/\ abort => watch'.runs = watch.runs
     /\ (abort' /\ ~dead' /\ mq' = <<>> /\ ~watch'.executing)
          => watch'.pc = "returned"
     /\ watch'.pc = "returned"
          => (abort' /\ watch'.watchers = 0 /\ ~watch'.executing)]_vars

C27_Witness ==
  /\ watch.pc = "returned"
  /\ abort
  /\ watch.runs = 1
  /\ watch.stale
  /\ \E s \in Scripts : proc[s] = "closed"


\* C28: in a watch iteration whose analysis returned diagnostics no Executor
\* is made, no execution object is made and no command is spawned: the step
\* that sees the diagnostics exits the process, and no step of an iteration
\* spawns anything while its analysis is still under way.
C28_DiagnosticsMeanNoExecutor ==
  [][/\ watch.analysis = "diagnostics" =>
          /\ watch'.executors = watch.executors
          /\ created' = created
          /\ spawnCount' = spawnCount
          /\ proc' = proc
          /\ watch'.pc \in {"clearing", "exited"}
     /\ (Ready("watchClosed") /\ watch.analysis = "diagnostics") =>
          (watch'.pc = "exited" /\ dead')
     /\ watch.pc \in {"analyzing", "clearing"} =>
          \A s \in Scripts : proc'[s] = "spawning" => proc[s] = "spawning"]_vars

C28_Witness ==
  /\ watch.pc = "exited"
  /\ dead
  /\ watch.analysis = "diagnostics"
  /\ watch.runs = 1
  /\ watch.executors = 0
  /\ \A s \in Scripts : spawnCount[s] = 0 /\ created[s] = 0


\* the scripts a graph declares
Declared(g) == {s \in Scripts : KindOf(g)[s] # "absent"}

\* the dependency paths of a graph: each script a dependency of the one before
DependencyPaths(g) ==
  {p \in UNION {[1..n -> Scripts] : n \in 1..Cardinality(Scripts)} :
     \A i \in 1..(Len(p) - 1) : p[i + 1] \in Range(DepsOf(g)[p[i]])}

\* for each graph and root, the services at the end of a dependency path
\* from the root on which every earlier script has no command
ServicesBehindNoCommand ==
  [g \in GraphIds, r \in Scripts |->
     {s \in Scripts :
        /\ KindOf(g)[s] = "service"
        /\ \E p \in DependencyPaths(g) :
             /\ p[1] = r
             /\ p[Len(p)] = s
             /\ \A i \in 1..(Len(p) - 1) : KindOf(g)[p[i]] = "noop"}]

\* findTopLevelServices agrees with the paths, in every graph and from every
\* declared script taken as the root
TopLevelServicesByPath ==
  \A g \in GraphIds : \A r \in Declared(g) :
    /\ Range(findTopLevelServices(g, r)) = ServicesBehindNoCommand[g, r]
    /\ NoDuplicates(findTopLevelServices(g, r))
    /\ KindOf(g)[r] = "service" => findTopLevelServices(g, r) = <<r>>
    /\ KindOf(g)[r] = "oneshot" => findTopLevelServices(g, r) = <<>>

\* C29: from every script of the graph taken as root, findTopLevelServices
\* returns exactly the services reachable along paths whose earlier scripts
\* (the root included) have no command, each once; a root that is a service
\* gives {root}; and only these services ever hold the entrypoint handle.
C29_TopLevelServicesExact ==
  /\ TopLevelServicesByPath
  /\ \A s \in Scripts :
       "entry" \in handles[s] => s \in ServicesBehindNoCommand[graph, RootOf(graph)]

C29_Witness ==
  /\ graph = "chain"
  /\ "entry" \in handles["svc"]
  /\ svcState["up"] = "started"
  /\ "entry" \notin handles["up"]
  /\ TopLevelServices = <<"svc">>


\* for each graph and script, the command-bearing scripts from which a
\* dependency path leads to the script through no-command scripts only
CommandsInFrontOf ==
  [g \in GraphIds, s \in Scripts |->
     {c \in Scripts :
        /\ KindOf(g)[c] \in {"oneshot", "service"}
        /\ \E p \in DependencyPaths(g) :
             /\ Len(p) >= 2
             /\ p[1] = c
             /\ p[Len(p)] = s
             /\ \A i \in 2..(Len(p) - 1) : KindOf(g)[p[i]] = "noop"}]

\* #findConsumersOfThisService agrees with the paths, for every service of
\* every graph
ConsumersByPath ==
  \A g \in GraphIds : \A s \in Declared(g) :
    KindOf(g)[s] = "service" =>
      /\ Range(findConsumersOfThisService(g, s)) = CommandsInFrontOf[g, s]
      /\ NoDuplicates(findConsumersOfThisService(g, s))

\* C30: #findConsumersOfThisService returns exactly the command-bearing
\* scripts that reach the service through no-command scripts only, each
\* once; the consumer handles a service takes when it starts are these and
\* no others; and a service without the entrypoint handle does not stay
\* started once all of them have finished, whatever its indirect dependents
\* have done.
C30_ConsumersAreDirectCommands ==
  [][\A s \in Services :
       /\ ConsumersByPath
       /\ handles'[s] \subseteq CommandsInFrontOf[graph, s] \cup {"entry"}
       /\ (svcState[s] = "starting" /\ svcState'[s] = "started")
            => CommandsInFrontOf[graph, s] \subseteq handles'[s]
       /\ (s \notin Range(TopLevelServices) /\ svcState'[s] = "started"
           /\ mq' = <<>> /\ ~dead')
            => \E c \in CommandsInFrontOf[graph, s] : done'[c] = "pending"]_vars

C30_Witness ==
  /\ graph = "indirect"
  /\ svcState["svc"] = "stopping"
  /\ signals["svc"] = 1
  /\ proc["svc"] = "closed"
  /\ done["a"] # "pending"
  /\ done["b"] # "pending"
  /\ spawnCount["main"] = 0
  /\ res["main"] = "pending"
  /\ ~abort
  /\ fileChanges = 0


\* C39: the Executor's three flags are never cleared once set, and whenever
\* kill-running-scripts is set stop-starting-new-scripts is set as well.
C39_FlagsMonotoneOrdered ==
  [][/\ stopStartingNewScripts => stopStartingNewScripts'
     /\ killRunningScripts => killRunningScripts'
     /\ killTopLevelServices => killTopLevelServices'
     /\ killRunningScripts' => stopStartingNewScripts']_vars

C39_Witness ==
  /\ failureMode = "kill"
  /\ policyApplied
  /\ killRunningScripts
  /\ stopStartingNewScripts
  /\ killTopLevelServices
  /\ fileChanges = 1
  /\ ~abort


\* C35: no ServiceExecution handler is ever invoked in a state it treats as
\* unexpected: neither the release of the last consumer handle, nor start(),
\* nor the reactions to upstream start, upstream termination and child
\* completion.
C35_NoUnexpectedState ==
  \A s \in Services :
    \A h \in {"onAllConsumersReleased", "start", "onAllServicesStarted",
              "onServiceTerminated", "onChildTerminated", "execute"} :
      <<s, h>> \notin unexpected


\* C36: a service's `done` is settled exactly in the states `stopped` (with
\* success) and `failed` (with failure); it is resolved in the step that
\* enters the state and keeps its value; and a service in either state
\* never changes state again.
C36_DoneIffTerminal ==
  [][\A s \in Services :
       /\ done'[s] # "pending" <=> svcState'[s] \in {"stopped", "failed"}
       /\ done'[s] = "ok" <=> svcState'[s] = "stopped"
       /\ done'[s] = "fail" <=> svcState'[s] = "failed"
       /\ done[s] # "pending" => done'[s] = done[s]
       /\ svcState[s] \in {"stopped", "failed"} => svcState'[s] = svcState[s]]_vars

C36_Witness ==
  /\ graph = "chain"
  /\ svcState["up"] = "failed"
  /\ done["up"] = "fail"
  /\ svcState["svc"] = "failed"
  /\ done["svc"] = "fail"
  /\ proc["svc"] = "none"


\* C37: every promise returned by start() resolves: once nothing is queued,
\* no fingerprint or spawn is under way and no child is on its way down, no
\* caller of start() is still waiting, also when the service failed while
\* `starting`.
C37_StartResolves ==
  (AtRest /\ ~dead) => startWaiters = {}


\* C38: a service B that a service A depends on is not shut down before A:
\* while A is `started`, or its child is still on the way down (`stopping`,
\* `failing`), B is neither `stopping` nor `stopped`; B is told to terminate
\* only once A's `done` has resolved.
C38_UpstreamOutlivesDependent ==
  \A A \in Services : \A B \in Range(UpstreamServices(graph, A)) :
    /\ svcState[A] \in {"started", "stopping", "failing"} =>
         svcState[B] \notin {"stopping", "stopped"}
    /\ svcState[B] \in {"stopping", "stopped"} => done[A] # "pending"

C38_Witness ==
  /\ graph = "chain"
  /\ svcState["svc"] = "failed"
  /\ signals["svc"] = 1
  /\ proc["svc"] = "closed"
  /\ svcState["up"] = "stopping"
  /\ signals["up"] = 1


\* C40: executeTopLevel returns: once the root execution has finished, abort
\* has fired and nothing is left to run, every top-level service's `done`
\* has resolved and executeTopLevel has returned its result.
C40_ExecuteTopLevelReturns ==
  (/\ AtRest /\ ~dead
   /\ abort
   /\ topPc # "init"
   /\ res[RootOf(graph)] \in {"ok", "fail"})
    => /\ topPc = "returned"
       /\ topResult \in {"ok", "fail"}
       /\ \A s \in Range(TopLevelServices) : done[s] # "pending"


(***************************************************************************)
(* Fingerprint.compute, Fingerprint.string and Fingerprint.equal.          *)
(***************************************************************************)
\* Names of input files and of dependency scripts.  "Aring" and "Angstrom"
\* stand for U+00C5 and U+212B: two different names (a file system and a
\* package.json hold both) that are canonically equivalent in Unicode.
Names == {"a", "Aring", "Angstrom"}

\* the collation key String.prototype.localeCompare compares by:
\* canonically equivalent strings have the same one
CollationKey(n) == IF n = "a" THEN 1 ELSE 2

\* aFile.localeCompare(bFile): negative, zero or positive
localeCompare(x, y) ==
  IF CollationKey(x) < CollationKey(y) THEN 0 - 1
  ELSE IF CollationKey(x) > CollationKey(y) THEN 1 ELSE 0

\* entry e put into the sorted list q behind every entry that does not
\* compare greater than it
InsertEntry(q, e) ==
  LET k == Cardinality({i \in 1..Len(q) : localeCompare(q[i][1], e[1]) <= 0})
  IN SubSeq(q, 1, k) \o <<e>> \o SubSeq(q, k + 1, Len(q))

RECURSIVE SortEntries(_)
\* entries.sort(([a], [b]) => a.localeCompare(b)): Array.prototype.sort is
\* stable, entries that compare equal keep their order
SortEntries(q) ==
  IF q = <<>> THEN <<>>
  ELSE InsertEntry(SortEntries(SubSeq(q, 1, Len(q) - 1)), q[Len(q)])

RECURSIVE ObjectFromEntries(_)
\* Object.fromEntries(entries): the properties in insertion order (no name
\* here is an array index); a repeated key keeps its place and takes the
\* later value
ObjectFromEntries(q) ==
  IF q = <<>> THEN <<>>
  ELSE LET o == ObjectFromEntries(SubSeq(q, 1, Len(q) - 1))
           e == q[Len(q)]
       IN IF \E i \in 1..Len(o) : o[i][1] = e[1]
            THEN [i \in 1..Len(o) |-> IF o[i][1] = e[1] THEN e ELSE o[i]]
            ELSE Append(o, e)

\* fault injection: a script with a command is cacheable only if its
\* `files` array has an entry
CacheableNeedsValues(command, files, allDependenciesAreCacheable) ==
  command = "none" \/ (files = "values" /\ allDependenciesAreCacheable)

\* the `cacheable` expression of Fingerprint.compute; files is "undefined",
\* "empty" (an empty array) or "values"
Cacheable(command, files, allDependenciesAreCacheable) ==
  command = "none" \/ (files # "undefined" /\ allDependenciesAreCacheable)

\* Fingerprint.compute(script, dependencyFingerprints): the data object as
\* its list of properties.  matched is what glob returns, in glob's order;
\* dependencies are <<reference, FingerprintData>> pairs in the caller's
\* order.  platform, arch, nodeVersion, clean and output are fixed here.
compute(command, files, matched, dependencies) ==
  LET allDependenciesAreCacheable ==
        \A i \in 1..Len(dependencies) : dependencies[i][2].cacheable
      fileHashes == IF files = "values" THEN matched ELSE <<>>
  IN [cacheable |-> Cacheable(command, files, allDependenciesAreCacheable),
      command |-> command,
      files |-> ObjectFromEntries(SortEntries(fileHashes)),
      dependencies |-> ObjectFromEntries(SortEntries(dependencies))]

\* Fingerprint.string: JSON.stringify writes the properties in their order
string(data) ==
  <<"cacheable", data.cacheable, "command", data.command,
    "files", data.files, "dependencies", data.dependencies>>

\* Fingerprint.equal
equal(a, b) == string(a) = string(b)

\* the lists without repetition over a set of entries
ListsOver(S) ==
  {q \in UNION {[1..n -> S] : n \in 0..Cardinality(S)} :
     \A i, j \in 1..Len(q) : q[i] = q[j] => i = j}

\* the rearrangements of a list
Rearrangements(q) == {r \in ListsOver(Range(q)) : Len(r) = Len(q)}

\* the sha256 digest of a file's content
Digest(n) == <<"sha256", n>>

\* matched file lists and dependency fingerprint lists tried
MatchedLists == ListsOver({<<n, Digest(n)>> : n \in Names})
DependencyLists ==
  UNION {ListsOver({<<n, [cacheable |-> n \notin U]>> : n \in Names}) :
           U \in {{}, {"a"}}}

FingerprintInit ==
  /\ graph = "chain" /\ failureMode = "continue" /\ persisted = {}
  /\ watch = WatchOff
  /\ an = AnalysisOff
  /\ ExecutorInit
  /\ \E c \in {"none", "cmd"}, f \in {"undefined", "empty", "values"},
        m \in MatchedLists, d \in DependencyLists :
       /\ (f # "values" => m = <<>>)
       /\ fp = [FingerprintOff EXCEPT !.phase = "input", !.command = c,
                                      !.files = f, !.matched = m,
                                      !.dependencies = d]

\* everything but fp: a call of Fingerprint.compute changes nothing else
executorVars ==
  <<graph, failureMode, persisted, topPc, topResult, created, res, seen,
    pc, svcState, numConsumers, handles, done, termSubs, startWaiters,
    startResults, startCalled, child, spawned, completed, spawnCount,
    signals, proc, abort, failureOccured, stopStartingNewScripts,
    killRunningScripts, killTopLevelServices, policyApplied, mq,
    unexpected, errs, terminateCalls, watch, dead, fileChanges, an>>

\* Fingerprint.compute on the inputs
FingerprintCompute ==
  /\ fp.phase = "input"
  /\ fp' = [fp EXCEPT !.phase = "computed",
                      !.first = <<compute(fp.command, fp.files, fp.matched,
                                          fp.dependencies)>>]
  /\ UNCHANGED executorVars

\* Fingerprint.compute again, the same script, files and dependency
\* fingerprints, glob and the caller (which shuffles the dependencies)
\* giving them in another order
FingerprintComputeAgain ==
  /\ fp.phase = "computed"
  /\ \E m \in Rearrangements(fp.matched), d \in Rearrangements(fp.dependencies) :
       fp' = [fp EXCEPT !.phase = "compared",
                        !.second = <<compute(fp.command, fp.files, m, d)>>]
  /\ UNCHANGED executorVars

\* the freshness decision of a one-shot in the next invocation: the first
\* fingerprint is the persisted one, the second the current one; the script
\* is fresh if the two are equal, and spawns its command otherwise
OneShotCheckFresh ==
  /\ fp.phase = "compared"
  /\ fp.command = "cmd"
  /\ fp' = [fp EXCEPT !.phase = IF equal(fp.first[1], fp.second[1])
                                  THEN "fresh" ELSE "spawned"]
  /\ UNCHANGED executorVars

FingerprintNext ==
  FingerprintCompute \/ FingerprintComputeAgain \/ OneShotCheckFresh

FingerprintSpec == FingerprintInit /\ [][FingerprintNext]_vars

\* C33: the fingerprint is cacheable exactly when the script has no command,
\* or it declares `files` (an empty array included) and every dependency
\* fingerprint is cacheable.
C33_CacheableExactly ==
  fp.first # <<>> =>
    (fp.first[1].cacheable <=>
       \/ fp.command = "none"
       \/ /\ fp.files \in {"empty", "values"}
          /\ \A d \in Range(fp.dependencies) : d[2].cacheable)

C33_Witness ==
  /\ fp.first # <<>>
  /\ fp.command = "cmd"
  /\ fp.files = "empty"
  /\ Len(fp.dependencies) = 2
  /\ fp.first[1].cacheable

\* C34: two fingerprints of the same script computed from the same files
\* and dependency fingerprints given in a different order are equal.
C34_OrderIgnored ==
  fp.second # <<>> => equal(fp.first[1], fp.second[1])


\* C31: in a second invocation with the same files, configuration and
\* dependency fingerprints, a one-shot that declares `files` and whose
\* dependencies are all cacheable is found fresh and does not spawn.
C31_SecondRunFresh ==
  (/\ fp.phase \in {"fresh", "spawned"}
   /\ fp.files \in {"empty", "values"}
   /\ \A i \in 1..Len(fp.dependencies) : fp.dependencies[i][2].cacheable)
    => fp.phase = "fresh"


(***************************************************************************)
(* Cycle detection by the analyzer and the logger's 'cycle' diagnostic.    *)
(***************************************************************************)
\* the dependencies of s in the order the descent takes them: by reference,
\* not by their place in the declaration
SortedDependencies(deps, s) == SeqFilter(CycleOrder, Range(deps[s]))

RECURSIVE VisitScript(_, _, _, _)
RECURSIVE VisitEach(_, _, _, _)
\* the recursive descent with its path stack: the trail of the first cycle
\* met (the stack followed by the repeated reference), or <<>>; finished
\* holds the scripts already descended into
VisitScript(deps, s, stack, finished) ==
  IF s \in Range(stack) THEN [trail |-> Append(stack, s), finished |-> finished]
  ELSE IF s \in finished THEN [trail |-> <<>>, finished |-> finished]
  ELSE LET r == VisitEach(deps, SortedDependencies(deps, s), Append(stack, s),
                          finished)
       IN IF r.trail # <<>> THEN r
          ELSE [trail |-> <<>>, finished |-> r.finished \cup {s}]

VisitEach(deps, ds, stack, finished) ==
  IF ds = <<>> THEN [trail |-> <<>>, finished |-> finished]
  ELSE LET r == VisitScript(deps, Head(ds), stack, finished)
       IN IF r.trail # <<>> THEN r
          ELSE VisitEach(deps, Tail(ds), stack, r.finished)

\* analysis of the entry script "a": the trail of the cycle failure
analyze(deps) == VisitScript(deps, "a", <<>>, {}).trail

\* the `length` of a cycle failure: the entries of the trail from the first
\* occurrence of the repeated script to the one before the last
CycleLength(trail) ==
  Len(trail) - (CHOOSE i \in 1..Len(trail) :
                  /\ trail[i] = trail[Len(trail)]
                  /\ \A j \in 1..(i - 1) : trail[j] # trail[Len(trail)])

\* fault injection: a logger that opens the loop at the top of the trail
CycleMarkLoopAtTop(i, cycleStart, cycleEnd) ==
  IF i = 0 THEN ".-> "
  ELSE IF i # cycleEnd THEN "|   "
  ELSE "'-- "

\* DefaultLogger.log, case 'cycle': what is written in front of trail[i]
\* (the backquote that closes the loop is written as an apostrophe here)
CycleMark(i, cycleStart, cycleEnd) ==
  IF i < cycleStart THEN "    "
  ELSE IF i = cycleStart THEN ".-> "
  ELSE IF i # cycleEnd THEN "|   "
  ELSE "'-- "

\* DefaultLogger.log, case 'cycle': the lines after "Cycle detected"
LogCycle(trail, length) ==
  LET cycleEnd == Len(trail) - 1
      cycleStart == cycleEnd - length
  IN [i \in 1..Len(trail) |-> <<CycleMark(i - 1, cycleStart, cycleEnd), trail[i]>>]

AnalyzerInit ==
  /\ graph = "chain" /\ failureMode = "continue" /\ persisted = {}
  /\ watch = WatchOff
  /\ fp = FingerprintOff
  /\ ExecutorInit
  /\ \E d \in [CycleScripts -> ListsOver(CycleScripts)] :
       an = [AnalysisOff EXCEPT !.phase = "input", !.dependencies = d]

\* everything but an: the analysis runs before there is an Executor
notAnalysisVars ==
  <<graph, failureMode, persisted, topPc, topResult, created, res, seen,
    pc, svcState, numConsumers, handles, done, termSubs, startWaiters,
    startResults, startCalled, child, spawned, completed, spawnCount,
    signals, proc, abort, failureOccured, stopStartingNewScripts,
    killRunningScripts, killTopLevelServices, policyApplied, mq,
    unexpected, errs, terminateCalls, watch, dead, fileChanges, fp>>

\* analyzer.analyze(entry): a cycle failure with its trail, or a graph
Analyze ==
  /\ an.phase = "input"
  /\ LET trail == analyze(an.dependencies) IN
       an' = IF trail = <<>> THEN [an EXCEPT !.phase = "ok"]
             ELSE [an EXCEPT !.phase = "failed", !.trail = trail,
                             !.length = CycleLength(trail)]
  /\ UNCHANGED notAnalysisVars

\* logger.log(failure) for the cycle failure
LogFailure ==
  /\ an.phase = "failed"
  /\ an' = [an EXCEPT !.phase = "logged", !.printed = LogCycle(an.trail, an.length)]
  /\ UNCHANGED notAnalysisVars

AnalyzerNext == Analyze \/ LogFailure

AnalyzerSpec == AnalyzerInit /\ [][AnalyzerNext]_vars

\* the walks from the entry script along declared dependencies that end in
\* a script they have already passed
CyclicWalks(deps) ==
  {p \in UNION {[1..n -> CycleScripts] : n \in 2..(Cardinality(CycleScripts) + 1)} :
     /\ p[1] = "a"
     /\ \A i \in 1..(Len(p) - 1) : p[i + 1] \in Range(deps[p[i]])
     /\ \E i \in 1..(Len(p) - 1) : p[i] = p[Len(p)]}

\* the declarations of the same graph with every script's dependencies in
\* some other order
Reorderings(q) == {l \in ListsOver(CycleScripts) : Range(l) = Range(q)}

Redeclared(deps) ==
  {[s \in CycleScripts |-> IF s = "a" THEN x ELSE IF s = "b" THEN y ELSE z] :
     x \in Reorderings(deps["a"]), y \in Reorderings(deps["b"]),
     z \in Reorderings(deps["c"])}

=============================================================================
